---- MODULE Spec2Model ----
(***************************************************************************)
(* Model of the Auth facade of firebase-admin-node (BaseAuthImpl and       *)
(* TenantAwareAuthImpl): token and session-cookie verification with the    *)
(* optional revocation check, tenant isolation, session-cookie minting and *)
(* the batch identifier lookup.                                            *)
(***************************************************************************)
EXTENDS Integers, Sequences, FiniteSets, TLC

VARIABLES tenantId, directory, calls, getUsersCall, deleteUsersCall, providerCall,
          createUserCall, tenantCall

\* The calls of the account and configuration management operations.
otherVars == <<deleteUsersCall, providerCall, createUserCall, tenantCall>>

vars == <<tenantId, directory, calls, getUsersCall, otherVars>>

(***************************************************************************)
(* Bounds of the model.                                                    *)
(***************************************************************************)
\* Largest auth_time (seconds) a decoded token carries.
MaxAuthTime == 2
\* Largest whole-second part of a tokens-valid-after date.
MaxValidSec == 2
\* Largest number of identifiers drawn for an enumerated getUsers request.
MaxIds == 2
\* Largest number of accounts in a directory lookup response.
MaxUsers == 2
\* Largest number of uids drawn for an enumerated deleteUsers request.
MaxUids == 2
\* Largest number of errors in a batch delete response.
MaxErrors == 2
\* Largest number of provider configurations in a listing page.
MaxConfigs == 2
\* Largest number of entries of an enumerated test phone number map.
MaxEntries == 2
\* Largest number of keys outside the tenant options a request carries.
MaxExtraKeys == 2

(***************************************************************************)
(* Values.                                                                 *)
(***************************************************************************)
\* The tenantId of a base (non tenant-bound) Auth instance: there is none.
NoTenant == "undefined"
TenantIds == {"T1", "T2"}
Subjects == {"u1", "u2"}
Calls == {"c1"}

\* The arguments a caller may pass as a token: a JWT string, the empty
\* string, or a value that is not a string.
Tokens ==
  { [isString |-> TRUE, str |-> "jwt"],
    [isString |-> TRUE, str |-> ""],
    [isString |-> FALSE, str |-> ""] }

\* SessionCookieOptions arguments: null/undefined, {} , {expiresIn: "x"},
\* {expiresIn: 300000}.
SessionCookieOptions ==
  { [isObject |-> FALSE, expiresInType |-> "undefined", expiresIn |-> 0],
    [isObject |-> TRUE, expiresInType |-> "undefined", expiresIn |-> 0],
    [isObject |-> TRUE, expiresInType |-> "string", expiresIn |-> 0],
    [isObject |-> TRUE, expiresInType |-> "number", expiresIn |-> 300000] }
NoOptions == [isObject |-> FALSE, expiresInType |-> "undefined", expiresIn |-> 0]

\* Claims a token verifier can decode: sub, auth_time (seconds) and
\* firebase.tenant (NoTenant when the claim is absent).
DecodedIdTokens ==
  [sub : Subjects, auth_time : 0..MaxAuthTime, tenant : TenantIds \cup {NoTenant}]
NoDecoded == [sub |-> "", auth_time |-> 0, tenant |-> NoTenant]

\* Errors the token verifiers reject with.
VerifierErrors == {"INVALID_ARGUMENT", "ID_TOKEN_EXPIRED"}
\* Errors the request handler rejects an RPC with.
NetworkErrors == {"NETWORK_ERROR"}

\* UserRecord.tokensValidAfterTime: undefined, or a date string, held as the
\* whole seconds and the millisecond fraction the string spells out.
NoTime == [defined |-> FALSE, sec |-> 0, ms |-> 0]
DateStrings == [defined : {TRUE}, sec : 1..MaxValidSec, ms : {0, 500}]
\* An account of the directory: absent, or present with its
\* tokensValidAfterTime.
Accounts == [exists : BOOLEAN, tokensValidAfterTime : DateStrings \cup {NoTime}]
NoAccount == [exists |-> FALSE, tokensValidAfterTime |-> NoTime]

\* The state of a promise: pending, resolved with a decoded token or a
\* cookie, or rejected with an error code.
Pending == [status |-> "pending", error |-> "", token |-> NoDecoded, cookie |-> ""]
Resolved(decodedIdToken) ==
  [status |-> "resolved", error |-> "", token |-> decodedIdToken, cookie |-> ""]
ResolvedCookie(cookie) ==
  [status |-> "resolved", error |-> "", token |-> NoDecoded, cookie |-> cookie]
Rejected(code) ==
  [status |-> "rejected", error |-> code, token |-> NoDecoded, cookie |-> ""]

IdleCall ==
  [ op |-> "none", pc |-> "idle", idToken |-> [isString |-> FALSE, str |-> ""],
    checkRevoked |-> FALSE, options |-> NoOptions, verifier |-> "none",
    decoded |-> NoDecoded, user |-> NoAccount, rpcs |-> <<>>, replies |-> <<>>,
    base |-> Pending, result |-> Pending ]

\* What a collaborator answered to a call: an error, decoded claims, a user
\* record or a cookie.
Reply(error, token, user, cookie) ==
  [error |-> error, token |-> token, user |-> user, cookie |-> cookie]
ErrorReply(e) == Reply(e, NoDecoded, NoAccount, "")
\* The call with one more answer on its record.
Answered(call, reply) == [call EXCEPT !.replies = Append(@, reply)]

(***************************************************************************)
(* validator helpers used by the facade.                                   *)
(***************************************************************************)
isNonEmptyString(value) == value.isString /\ value.str # ""
isNonNullObject(value) == value.isObject
isNumber(options) == options.expiresInType = "number"

\* new Date(dateString).getTime(): the instant in milliseconds.
DateGetTime(dateString) == dateString.sec * 1000 + dateString.ms

\* Variants of verifyDecodedJWTNotRevoked: the cutoff itself counts as
\* revoked; a record without a cutoff counts as revoked.
verifyDecodedJWTNotRevoked_inclusive(decodedIdToken, revocationErrorInfo, user) ==
  IF user.tokensValidAfterTime.defined
     /\ decodedIdToken.auth_time * 1000 <= DateGetTime(user.tokensValidAfterTime)
  THEN Rejected(revocationErrorInfo)
  ELSE Resolved(decodedIdToken)

verifyDecodedJWTNotRevoked_noCutoffRevokes(decodedIdToken, revocationErrorInfo, user) ==
  IF ~user.tokensValidAfterTime.defined
     \/ decodedIdToken.auth_time * 1000 < DateGetTime(user.tokensValidAfterTime)
  THEN Rejected(revocationErrorInfo)
  ELSE Resolved(decodedIdToken)

(***************************************************************************)
(* BaseAuthImpl.verifyDecodedJWTNotRevoked, applied to the fetched user.   *)
(***************************************************************************)
verifyDecodedJWTNotRevoked(decodedIdToken, revocationErrorInfo, user) ==
  LET authTimeUtc == decodedIdToken.auth_time * 1000
      validSinceUtc == DateGetTime(user.tokensValidAfterTime)
  IN IF user.tokensValidAfterTime.defined /\ authTimeUtc < validSinceUtc
     THEN Rejected(revocationErrorInfo)
     ELSE Resolved(decodedIdToken)

\* The revocation error each verification path passes to the orchestrator.
RevocationErrorInfo(op) ==
  IF op = "verifySessionCookie" THEN "SESSION_COOKIE_REVOKED" ELSE "ID_TOKEN_REVOKED"

\* Variant of tenantMismatch: only a token without a tenant claim mismatches.
tenantMismatch_onlyMissing(decodedClaims, tid) == decodedClaims.tenant = NoTenant

\* The tenant comparison of the TenantAwareAuthImpl overrides.
tenantMismatch(decodedClaims, tid) == decodedClaims.tenant # tid

\* Variant of invalidDuration: only the options object is checked.
invalidDuration_objectOnly(sessionCookieOptions) ==
  ~isNonNullObject(sessionCookieOptions)

\* The argument check of createSessionCookie.
invalidDuration(sessionCookieOptions) ==
  ~isNonNullObject(sessionCookieOptions) \/ ~isNumber(sessionCookieOptions)

(***************************************************************************)
(* Continuation of a call once the promise of the base verification        *)
(* (super.verifyIdToken / super.verifySessionCookie) has settled with b.   *)
(* A base instance returns that promise; a tenant-bound instance chains    *)
(* its tenant check on fulfilment and passes a rejection through.          *)
(***************************************************************************)
\* Variant of settleBase: a tenant-bound instance compares the tenant of the
\* decoded token even when the base verification has rejected.
settleBase_tenantFirst(call, b) ==
  IF tenantId # NoTenant /\ call.decoded # NoDecoded /\ call.decoded.tenant # tenantId
  THEN [call EXCEPT !.base = b, !.result = Rejected("MISMATCHING_TENANT_ID"),
                    !.pc = "done"]
  ELSE IF b.status = "rejected" \/ tenantId = NoTenant
  THEN [call EXCEPT !.base = b, !.result = b, !.pc = "done"]
  ELSE [call EXCEPT !.base = b, !.pc = "tenantCheck"]

settleBase(call, b) ==
  IF b.status = "rejected"
  THEN [call EXCEPT !.base = b, !.result = b, !.pc = "done"]
  ELSE IF tenantId = NoTenant
       THEN [call EXCEPT !.base = b, !.result = b, !.pc = "done"]
       ELSE [call EXCEPT !.base = b, !.pc = "tenantCheck"]

Settled(c) == calls[c].pc \in {"idle", "done"}

\* Variant of thenDecoded: the account is fetched by the token string, not
\* by the decoded subject.
thenDecoded_keyedByToken(call, decodedIdToken) ==
  IF ~call.checkRevoked
  THEN settleBase([call EXCEPT !.decoded = decodedIdToken], Resolved(decodedIdToken))
  ELSE [call EXCEPT !.decoded = decodedIdToken,
                    !.rpcs = Append(@, [name |-> "getAccountInfoByUid",
                                        arg |-> call.idToken.str]),
                    !.pc = "getUser"]

\* Variant of thenDecoded: the account is fetched whatever checkRevoked is.
thenDecoded_alwaysFetch(call, decodedIdToken) ==
  [call EXCEPT !.decoded = decodedIdToken,
               !.rpcs = Append(@, [name |-> "getAccountInfoByUid",
                                   arg |-> decodedIdToken.sub]),
               !.pc = "getUser"]

(***************************************************************************)
(* The callback chained on verifyJWT by verifyIdToken and                  *)
(* verifySessionCookie: return the decoded token as is, or go on to the    *)
(* revocation check, which starts by fetching the account of the subject.  *)
(***************************************************************************)
thenDecoded(call, decodedIdToken) ==
  IF ~call.checkRevoked
  THEN settleBase([call EXCEPT !.decoded = decodedIdToken], Resolved(decodedIdToken))
  ELSE [call EXCEPT !.decoded = decodedIdToken,
                    !.rpcs = Append(@, [name |-> "getAccountInfoByUid",
                                        arg |-> decodedIdToken.sub]),
                    !.pc = "getUser"]

\* BaseAuthImpl.createSessionCookie: check the duration, then ask the
\* directory to mint the cookie.
baseCreateSessionCookie(call) ==
  IF invalidDuration(call.options)
  THEN [call EXCEPT !.result = Rejected("INVALID_SESSION_COOKIE_DURATION"), !.pc = "done"]
  ELSE [call EXCEPT !.rpcs = Append(@, [name |-> "createSessionCookie",
                                        arg |-> call.idToken.str]),
                    !.pc = "mint"]

\* Variant of tenantCreateSessionCookie: the ID token is verified with
\* checkRevoked = true.
tenantCreateSessionCookie_checkRevoked(call) ==
  IF ~isNonEmptyString(call.idToken)
  THEN [call EXCEPT !.result = Rejected("INVALID_ID_TOKEN"), !.pc = "done"]
  ELSE IF invalidDuration(call.options)
  THEN [call EXCEPT !.result = Rejected("INVALID_SESSION_COOKIE_DURATION"), !.pc = "done"]
  ELSE [call EXCEPT !.checkRevoked = TRUE, !.verifier = "idToken", !.pc = "verifyJWT"]

\* Variant of tenantCreateSessionCookie: the duration is checked before the
\* ID token.
tenantCreateSessionCookie_durationFirst(call) ==
  IF invalidDuration(call.options)
  THEN [call EXCEPT !.result = Rejected("INVALID_SESSION_COOKIE_DURATION"), !.pc = "done"]
  ELSE IF ~isNonEmptyString(call.idToken)
  THEN [call EXCEPT !.result = Rejected("INVALID_ID_TOKEN"), !.pc = "done"]
  ELSE [call EXCEPT !.checkRevoked = FALSE, !.verifier = "idToken", !.pc = "verifyJWT"]

\* Variant of tenantCreateSessionCookie: the cookie is minted without
\* verifying the ID token first.
tenantCreateSessionCookie_noVerify(call) ==
  IF ~isNonEmptyString(call.idToken)
  THEN [call EXCEPT !.result = Rejected("INVALID_ID_TOKEN"), !.pc = "done"]
  ELSE baseCreateSessionCookie(call)

\* TenantAwareAuthImpl.createSessionCookie: check the arguments, then verify
\* the ID token (checkRevoked defaults to false) before minting.
tenantCreateSessionCookie(call) ==
  IF ~isNonEmptyString(call.idToken)
  THEN [call EXCEPT !.result = Rejected("INVALID_ID_TOKEN"), !.pc = "done"]
  ELSE IF invalidDuration(call.options)
  THEN [call EXCEPT !.result = Rejected("INVALID_SESSION_COOKIE_DURATION"), !.pc = "done"]
  ELSE [call EXCEPT !.checkRevoked = FALSE, !.verifier = "idToken", !.pc = "verifyJWT"]

\* Variant of thenTenantCheck: the decoded claims are returned unchecked.
thenTenantCheck_unchecked(call, tid) ==
  IF call.op = "createSessionCookie"
  THEN baseCreateSessionCookie(call)
  ELSE [call EXCEPT !.result = Resolved(call.base.token), !.pc = "done"]

\* The callback the tenant-bound overrides chain on the base verification.
thenTenantCheck(call, tid) ==
  IF tenantMismatch(call.base.token, tid)
  THEN [call EXCEPT !.result = Rejected("MISMATCHING_TENANT_ID"), !.pc = "done"]
  ELSE IF call.op = "createSessionCookie"
       THEN baseCreateSessionCookie(call)
       ELSE [call EXCEPT !.result = Resolved(call.base.token), !.pc = "done"]

(***************************************************************************)
(* Operations of the Auth instance.                                        *)
(***************************************************************************)
verifyIdToken(c, idToken, checkRevoked) ==
  /\ Settled(c)
  /\ calls' = [calls EXCEPT ![c] =
       [IdleCall EXCEPT !.op = "verifyIdToken", !.idToken = idToken,
                        !.checkRevoked = checkRevoked,
                        !.verifier = "idToken", !.pc = "verifyJWT"]]
  /\ UNCHANGED <<tenantId, directory, getUsersCall, otherVars>>

verifySessionCookie(c, sessionCookie, checkRevoked) ==
  /\ Settled(c)
  /\ calls' = [calls EXCEPT ![c] =
       [IdleCall EXCEPT !.op = "verifySessionCookie", !.idToken = sessionCookie,
                        !.checkRevoked = checkRevoked,
                        !.verifier = "sessionCookie", !.pc = "verifyJWT"]]
  /\ UNCHANGED <<tenantId, directory, getUsersCall, otherVars>>

createSessionCookie(c, idToken, sessionCookieOptions) ==
  /\ Settled(c)
  /\ LET call == [IdleCall EXCEPT !.op = "createSessionCookie", !.idToken = idToken,
                                  !.options = sessionCookieOptions]
     IN calls' = [calls EXCEPT ![c] =
          IF tenantId = NoTenant THEN baseCreateSessionCookie(call)
                                 ELSE tenantCreateSessionCookie(call)]
  /\ UNCHANGED <<tenantId, directory, getUsersCall, otherVars>>

\* The token verifier settles: it rejects, or (for a non-empty string only)
\* fulfils with decoded claims.
verifyJWTDone(c) ==
  /\ calls[c].pc = "verifyJWT"
  /\ \/ \E e \in VerifierErrors :
          calls' = [calls EXCEPT ![c] =
                      settleBase(Answered(calls[c], ErrorReply(e)), Rejected(e))]
     \/ /\ isNonEmptyString(calls[c].idToken)
        /\ \E d \in DecodedIdTokens :
             calls' = [calls EXCEPT ![c] =
                         thenDecoded(Answered(calls[c], Reply("", d, NoAccount, "")), d)]
  /\ UNCHANGED <<tenantId, directory, getUsersCall, otherVars>>

\* getUser settles: the request fails, or the directory answers with the
\* account of the requested uid as it is now, and the user record is handed
\* to the callback of the revocation check.
getUserDone(c) ==
  /\ calls[c].pc = "getUser"
  /\ LET uid == calls[c].rpcs[Len(calls[c].rpcs)].arg
     IN \/ \E e \in NetworkErrors :
             calls' = [calls EXCEPT ![c] =
                         settleBase(Answered(calls[c], ErrorReply(e)), Rejected(e))]
        \/ /\ ~directory[uid].exists
           /\ calls' = [calls EXCEPT ![c] =
                settleBase(Answered(calls[c], ErrorReply("USER_NOT_FOUND")),
                           Rejected("USER_NOT_FOUND"))]
        \/ /\ directory[uid].exists
           /\ calls' = [calls EXCEPT ![c] =
                [Answered(calls[c], Reply("", NoDecoded, directory[uid], ""))
                   EXCEPT !.user = directory[uid], !.pc = "revocationCheck"]]
  /\ UNCHANGED <<tenantId, directory, getUsersCall, otherVars>>

\* Variant of revocationCheck: the instance keeps the user record another
\* call has fetched and the callback decides on that one when there is one.
revocationCheck_sharedRecord(c) ==
  /\ calls[c].pc = "revocationCheck"
  /\ LET others == { d \in DOMAIN calls : d # c /\ calls[d].user.exists }
         user == IF others = {} THEN calls[c].user
                 ELSE calls[CHOOSE d \in others : TRUE].user
     IN calls' = [calls EXCEPT ![c] =
          settleBase(calls[c],
                     IF user.tokensValidAfterTime.defined
                        /\ calls[c].decoded.auth_time * 1000
                             < DateGetTime(user.tokensValidAfterTime)
                     THEN Rejected(RevocationErrorInfo(calls[c].op))
                     ELSE Resolved(calls[c].decoded))]
  /\ UNCHANGED <<tenantId, directory, getUsersCall, otherVars>>

\* Variant of revocationCheck: the callback looks the account up in the
\* directory again instead of using the record it was handed.
revocationCheck_rereads(c) ==
  /\ calls[c].pc = "revocationCheck"
  /\ calls' = [calls EXCEPT ![c] =
       settleBase(calls[c],
                  IF directory[calls[c].decoded.sub].tokensValidAfterTime.defined
                     /\ calls[c].decoded.auth_time * 1000
                          < DateGetTime(directory[calls[c].decoded.sub].tokensValidAfterTime)
                  THEN Rejected(RevocationErrorInfo(calls[c].op))
                  ELSE Resolved(calls[c].decoded))]
  /\ UNCHANGED <<tenantId, directory, getUsersCall, otherVars>>

\* The callback verifyDecodedJWTNotRevoked chains on getUser: it decides on
\* the user record the fetch returned.
revocationCheck(c) ==
  /\ calls[c].pc = "revocationCheck"
  /\ calls' = [calls EXCEPT ![c] =
       settleBase(calls[c],
                  verifyDecodedJWTNotRevoked(calls[c].decoded,
                                             RevocationErrorInfo(calls[c].op),
                                             calls[c].user))]
  /\ UNCHANGED <<tenantId, directory, getUsersCall, otherVars>>

tenantCheck(c) ==
  /\ calls[c].pc = "tenantCheck"
  /\ calls' = [calls EXCEPT ![c] = thenTenantCheck(calls[c], tenantId)]
  /\ UNCHANGED <<tenantId, directory, getUsersCall, otherVars>>

\* The directory answers the createSessionCookie RPC.
createSessionCookieDone(c) ==
  /\ calls[c].pc = "mint"
  /\ \/ calls' = [calls EXCEPT ![c] =
          [Answered(calls[c], Reply("", NoDecoded, NoAccount, "cookie"))
             EXCEPT !.result = ResolvedCookie("cookie"), !.pc = "done"]]
     \/ \E e \in NetworkErrors :
          calls' = [calls EXCEPT ![c] =
            [Answered(calls[c], ErrorReply(e)) EXCEPT !.result = Rejected(e), !.pc = "done"]]
  /\ UNCHANGED <<tenantId, directory, getUsersCall, otherVars>>

\* revokeRefreshTokens(uid), run to completion by another caller: the
\* directory moves the account's tokens-valid-after time forward.
revokeRefreshTokens(uid) ==
  /\ directory[uid].exists
  /\ \E sec \in 1..MaxValidSec :
       /\ directory[uid].tokensValidAfterTime.defined
            => sec > directory[uid].tokensValidAfterTime.sec
       /\ directory' = [directory EXCEPT ![uid].tokensValidAfterTime =
                          [defined |-> TRUE, sec |-> sec, ms |-> 0]]
  /\ UNCHANGED <<tenantId, calls, getUsersCall, otherVars>>

(***************************************************************************)
(* getUsers: the batch identifier lookup.                                  *)
(***************************************************************************)
\* A field that is undefined.
NoValue == "undefined"
\* The largest identifier list getAccountInfoByIdentifiers accepts.
MAX_GET_ACCOUNTS_BATCH_SIZE == 100

UidIdentifier(uid) ==
  [kind |-> "uid", uid |-> uid, email |-> NoValue, phoneNumber |-> NoValue,
   providerId |-> NoValue, providerUid |-> NoValue]
EmailIdentifier(email) ==
  [kind |-> "email", uid |-> NoValue, email |-> email, phoneNumber |-> NoValue,
   providerId |-> NoValue, providerUid |-> NoValue]
PhoneIdentifier(phoneNumber) ==
  [kind |-> "phone", uid |-> NoValue, email |-> NoValue, phoneNumber |-> phoneNumber,
   providerId |-> NoValue, providerUid |-> NoValue]
ProviderIdentifier(providerId, providerUid) ==
  [kind |-> "provider", uid |-> NoValue, email |-> NoValue, phoneNumber |-> NoValue,
   providerId |-> providerId, providerUid |-> providerUid]
\* An object that is none of the four identifier shapes.
UnknownIdentifier ==
  [kind |-> "unknown", uid |-> NoValue, email |-> NoValue, phoneNumber |-> NoValue,
   providerId |-> NoValue, providerUid |-> NoValue]

UserIdentifiers ==
  { UidIdentifier("a"), UidIdentifier("z"), EmailIdentifier("b@x.com"),
    PhoneIdentifier("+15551234"), ProviderIdentifier("google.com", "g1"),
    ProviderIdentifier("google.com", "g2"), UnknownIdentifier }

isUidIdentifier(id) == id.kind = "uid"
isEmailIdentifier(id) == id.kind = "email"
isPhoneIdentifier(id) == id.kind = "phone"
isProviderIdentifier(id) == id.kind = "provider"

\* Accounts as the directory returns them.
Account(localId, email, phoneNumber, providerUserInfo) ==
  [localId |-> localId, email |-> email, phoneNumber |-> phoneNumber,
   providerUserInfo |-> providerUserInfo]
ProviderUserInfo(providerId, rawId) == [providerId |-> providerId, rawId |-> rawId]
ResponseAccounts ==
  { Account("a", "a@x.com", NoValue, <<>>),
    Account("b", "b@x.com", "+15551234", <<ProviderUserInfo("google.com", "g1")>>),
    Account("c", NoValue, NoValue,
            <<ProviderUserInfo("google.com", "g1"), ProviderUserInfo("google.com", "g2")>>),
    Account("d", NoValue, NoValue,
            <<ProviderUserInfo("facebook.com", "g2"), ProviderUserInfo("google.com", "g2")>>) }

\* new UserRecord(user): the public record of a returned account.
UserRecord(user) ==
  [uid |-> user.localId, email |-> user.email, phoneNumber |-> user.phoneNumber,
   providerData |-> [i \in 1..Len(user.providerUserInfo) |->
                       [providerId |-> user.providerUserInfo[i].providerId,
                        uid |-> user.providerUserInfo[i].rawId]]]

\* Array.prototype.find with the predicate id.providerId === userInfo.providerId:
\* the index of the first matching entry, 0 when there is none.
findProviderId(providerData, providerId) ==
  IF \E i \in 1..Len(providerData) : providerData[i].providerId = providerId
  THEN CHOOSE i \in 1..Len(providerData) :
         /\ providerData[i].providerId = providerId
         /\ \A j \in 1..(i - 1) : providerData[j].providerId # providerId
  ELSE 0

\* Variant of userMatches: an account matches a uid identifier by e-mail.
userMatches_uidByEmail(id, userRecord) ==
  IF isUidIdentifier(id) THEN id.uid = userRecord.email
  ELSE IF isEmailIdentifier(id) THEN id.email = userRecord.email
  ELSE IF isPhoneIdentifier(id) THEN id.phoneNumber = userRecord.phoneNumber
  ELSE FALSE

\* The predicate isUserFound hands to userRecords.find, for an identifier of
\* one of the four shapes.
userMatches(id, userRecord) ==
  IF isUidIdentifier(id) THEN id.uid = userRecord.uid
  ELSE IF isEmailIdentifier(id) THEN id.email = userRecord.email
  ELSE IF isPhoneIdentifier(id) THEN id.phoneNumber = userRecord.phoneNumber
  ELSE IF isProviderIdentifier(id)
       THEN LET m == findProviderId(userRecord.providerData, id.providerId)
            IN m # 0 /\ id.providerUid = userRecord.providerData[m].uid
  ELSE FALSE

isUserFound(id, userRecords) ==
  \E i \in 1..Len(userRecords) : userMatches(id, userRecords[i])

\* The predicate throws 'Unhandled identifier type' when it is run on an
\* identifier of no known shape, i.e. when there is a user record to run it on.
isUserFoundThrows(identifiers, userRecords) ==
  /\ userRecords # <<>>
  /\ \E i \in 1..Len(identifiers) :
       ~(isUidIdentifier(identifiers[i]) \/ isEmailIdentifier(identifiers[i])
           \/ isPhoneIdentifier(identifiers[i]) \/ isProviderIdentifier(identifiers[i]))

\* Variant of isArray: whatever has a length passes.
isArray_hasLength(value) == Len(value.items) >= 0

\* Variant of isArray: every argument passes.
isArray_any(value) == TRUE

isArray(value) == value.isArray

\* The argument check of getAccountInfoByIdentifiers.
tooManyIdentifiers(identifiers) == Len(identifiers) > MAX_GET_ACCOUNTS_BATCH_SIZE

\* The identifiers argument of getUsers: not an array, or an array.
NotAnArray == [isArray |-> FALSE, items |-> <<>>]
ArrayOf(items) == [isArray |-> TRUE, items |-> items]
\* A list of n copies of one identifier.
Repeat(id, n) == [i \in 1..n |-> id]
SeqsUpTo(S, n) == UNION { [1..k -> S] : k \in 0..n }
IdentifierArgs ==
  {NotAnArray}
    \cup { ArrayOf(items) : items \in SeqsUpTo(UserIdentifiers, MaxIds) }
    \cup { ArrayOf(Repeat(UidIdentifier("a"), n)) :
             n \in {MAX_GET_ACCOUNTS_BATCH_SIZE - 1, MAX_GET_ACCOUNTS_BATCH_SIZE,
                    MAX_GET_ACCOUNTS_BATCH_SIZE + 1} }

\* Responses of getAccountInfoByIdentifiers: with or without a users list.
NoUsers == [hasUsers |-> FALSE, users |-> <<>>]
LookupResponses ==
  {NoUsers} \cup { [hasUsers |-> TRUE, users |-> u] : u \in SeqsUpTo(ResponseAccounts, MaxUsers) }

GetUsersRejected(code) ==
  [status |-> "rejected", error |-> code, users |-> <<>>, notFound |-> <<>>]
GetUsersResult(users, notFound) ==
  [status |-> "resolved", error |-> "", users |-> users, notFound |-> notFound]
GetUsersPending ==
  [status |-> "pending", error |-> "", users |-> <<>>, notFound |-> <<>>]

IdleGetUsers ==
  [pc |-> "idle", identifiers |-> NotAnArray, rpcs |-> <<>>, response |-> NoUsers,
   result |-> GetUsersPending]

\* identifiers.filter((id) => !isUserFound(id, users)): the identifiers
\* without a match, in the order of the request.
filterNotFound(identifiers, users) ==
  SelectSeq(identifiers, LAMBDA id : ~isUserFound(id, users))

\* Variant of getUsersThen: only the returned accounts that match a requested
\* identifier are kept in users.
getUsersThen_onlyRequested(identifiers, response) ==
  LET all == IF response.hasUsers
             THEN [i \in 1..Len(response.users) |-> UserRecord(response.users[i])]
             ELSE <<>>
      users == SelectSeq(all, LAMBDA u :
                 \E i \in 1..Len(identifiers) : userMatches(identifiers[i], u))
  IN GetUsersResult(users, filterNotFound(identifiers, users))

\* The then-callback of getUsers on the directory's response.
getUsersThen(identifiers, response) ==
  LET users == IF response.hasUsers
               THEN [i \in 1..Len(response.users) |-> UserRecord(response.users[i])]
               ELSE <<>>
  IN IF isUserFoundThrows(identifiers, users)
     THEN GetUsersRejected("INTERNAL_ERROR")
     ELSE GetUsersResult(users, filterNotFound(identifiers, users))

getUsers(identifiers) ==
  /\ getUsersCall.pc \in {"idle", "done"}
  /\ getUsersCall' =
       IF ~isArray(identifiers)
       THEN [IdleGetUsers EXCEPT !.identifiers = identifiers, !.pc = "done",
                                 !.result = GetUsersRejected("INVALID_ARGUMENT")]
       ELSE IF tooManyIdentifiers(identifiers.items)
       THEN [IdleGetUsers EXCEPT !.identifiers = identifiers, !.pc = "done",
                                 !.result = GetUsersRejected("INVALID_ARGUMENT")]
       ELSE [IdleGetUsers EXCEPT !.identifiers = identifiers, !.pc = "lookup",
                                 !.rpcs = <<"getAccountInfoByIdentifiers">>]
  /\ UNCHANGED <<tenantId, directory, calls, otherVars>>

\* The directory answers the lookup: the request fails, or getUsers post-
\* processes the returned accounts.
getUsersDone ==
  /\ getUsersCall.pc = "lookup"
  /\ \/ \E e \in NetworkErrors :
          getUsersCall' = [getUsersCall EXCEPT !.pc = "done", !.result = GetUsersRejected(e)]
     \/ \E response \in LookupResponses :
          getUsersCall' = [getUsersCall EXCEPT
                             !.pc = "done", !.response = response,
                             !.result = getUsersThen(getUsersCall.identifiers.items, response)]
  /\ UNCHANGED <<tenantId, directory, calls, otherVars>>

(***************************************************************************)
(* deleteUsers: the batch delete and the aggregation of its outcome.       *)
(***************************************************************************)
\* The largest uid list deleteAccounts accepts.
MAX_DELETE_ACCOUNTS_BATCH_SIZE == 1000

\* The uids argument of deleteUsers: a value that is not an array (a string
\* of one character), or an array of n uids.
UidsArgs ==
  { [isArray |-> FALSE, items |-> <<"u">>] }
    \cup { ArrayOf(Repeat("uid", n)) :
             n \in (0..MaxUids) \cup {MAX_DELETE_ACCOUNTS_BATCH_SIZE,
                                      MAX_DELETE_ACCOUNTS_BATCH_SIZE + 1} }

\* The argument check of deleteAccounts.
invalidUidCount(uids) == Len(uids) = 0 \/ Len(uids) > MAX_DELETE_ACCOUNTS_BATCH_SIZE

\* A message of a directory error: undefined, or a text, held as its first
\* twelve characters and the rest.
NoMessage == [defined |-> FALSE, head |-> "", rest |-> ""]
Text(head, rest) == [defined |-> TRUE, head |-> head, rest |-> rest]
Messages ==
  { NoMessage, Text("", ""),
    Text("NOT_DISABLED", " : Disable the account before batch deletion."),
    Text("USER_NOT_DIS", "ABLED"), Text("not_disabled", "") }
\* msg.startsWith('NOT_DISABLED')
startsWithNotDisabled(msg) == msg.head = "NOT_DISABLED"
\* The truthiness of msg: neither undefined nor the empty string.
truthy(msg) == msg.defined /\ ~(msg.head = "" /\ msg.rest = "")

\* An entry of batchDeleteAccountsResponse.errors: index may be undefined.
BatchDeleteErrorInfos ==
  [hasIndex : {TRUE}, index : 0..(MaxUids - 1), message : Messages]
    \cup [hasIndex : {FALSE}, index : {0}, message : Messages]
\* Responses of deleteAccounts: without an errors list, or with one.
NoErrors == [hasErrors |-> FALSE, errors |-> <<>>]
BatchDeleteResponses ==
  {NoErrors} \cup { [hasErrors |-> TRUE, errors |-> e] :
                      e \in SeqsUpTo(BatchDeleteErrorInfos, MaxErrors) }

isNonEmptyArray(response) == response.hasErrors /\ Len(response.errors) > 0

\* Variant of errMsgToError: every message gives INTERNAL_ERROR.
errMsgToError_alwaysInternal(msg) == [code |-> "INTERNAL_ERROR", message |-> msg]

\* errMsgToError: the FirebaseAuthError of a directory error message.
errMsgToError(msg) ==
  [code |-> IF truthy(msg) /\ startsWithNotDisabled(msg)
            THEN "USER_NOT_DISABLED" ELSE "INTERNAL_ERROR",
   message |-> msg]

DeleteUsersRejected(code) ==
  [status |-> "rejected", error |-> code, successCount |-> 0, failureCount |-> 0,
   errors |-> <<>>]
DeleteUsersResult(successCount, failureCount, errors) ==
  [status |-> "resolved", error |-> "", successCount |-> successCount,
   failureCount |-> failureCount, errors |-> errors]
DeleteUsersPending ==
  [status |-> "pending", error |-> "", successCount |-> 0, failureCount |-> 0,
   errors |-> <<>>]

IdleDeleteUsers ==
  [pc |-> "idle", uids |-> ArrayOf(<<>>), rpcs |-> <<>>, response |-> NoErrors,
   result |-> DeleteUsersPending]

\* Variant of deleteUsersThen: entries without an index are left out.
deleteUsersThen_skipsUnindexed(uids, response) ==
  IF ~(response.hasErrors /\ Len(response.errors) > 0)
  THEN DeleteUsersResult(Len(uids), 0, <<>>)
  ELSE LET indexed == SelectSeq(response.errors, LAMBDA e : e.hasIndex)
       IN DeleteUsersResult(
            Len(uids) - Len(indexed), Len(indexed),
            [i \in 1..Len(indexed) |->
               [index |-> indexed[i].index,
                error |-> [code |-> "INTERNAL_ERROR", message |-> indexed[i].message]]])

\* Variant of deleteUsersThen: successCount is not reduced by the failures.
deleteUsersThen_successNotReduced(uids, response) ==
  IF ~isNonEmptyArray(response)
  THEN DeleteUsersResult(Len(uids), 0, <<>>)
  ELSE IF \E i \in 1..Len(response.errors) : ~response.errors[i].hasIndex
  THEN DeleteUsersRejected("INTERNAL_ERROR")
  ELSE DeleteUsersResult(
         Len(uids), Len(response.errors),
         [i \in 1..Len(response.errors) |->
            [index |-> response.errors[i].index,
             error |-> errMsgToError(response.errors[i].message)]])

\* The then-callback of deleteUsers on the directory's response.
deleteUsersThen(uids, response) ==
  IF ~isNonEmptyArray(response)
  THEN DeleteUsersResult(Len(uids), 0, <<>>)
  ELSE IF \E i \in 1..Len(response.errors) : ~response.errors[i].hasIndex
  THEN DeleteUsersRejected("INTERNAL_ERROR")
  ELSE DeleteUsersResult(
         Len(uids) - Len(response.errors), Len(response.errors),
         [i \in 1..Len(response.errors) |->
            [index |-> response.errors[i].index,
             error |-> errMsgToError(response.errors[i].message)]])

\* Variant of deleteUsers: one delete RPC per uid.
deleteUsers_onePerUid(uids) ==
  /\ deleteUsersCall.pc \in {"idle", "done"}
  /\ deleteUsersCall' =
       IF ~uids.isArray \/ Len(uids.items) = 0
            \/ Len(uids.items) > MAX_DELETE_ACCOUNTS_BATCH_SIZE
       THEN [IdleDeleteUsers EXCEPT !.uids = uids, !.pc = "done",
                                    !.result = DeleteUsersRejected("INVALID_ARGUMENT")]
       ELSE [IdleDeleteUsers EXCEPT
               !.uids = uids, !.pc = "delete",
               !.rpcs = [i \in 1..Len(uids.items) |->
                           [name |-> "deleteAccounts", force |-> TRUE]]]
  /\ UNCHANGED <<tenantId, directory, calls, getUsersCall, providerCall, createUserCall, tenantCall>>

deleteUsers(uids) ==
  /\ deleteUsersCall.pc \in {"idle", "done"}
  /\ deleteUsersCall' =
       IF ~isArray(uids)
       THEN [IdleDeleteUsers EXCEPT !.uids = uids, !.pc = "done",
                                    !.result = DeleteUsersRejected("INVALID_ARGUMENT")]
       ELSE IF invalidUidCount(uids.items)
       THEN [IdleDeleteUsers EXCEPT !.uids = uids, !.pc = "done",
                                    !.result = DeleteUsersRejected("INVALID_ARGUMENT")]
       ELSE [IdleDeleteUsers EXCEPT !.uids = uids, !.pc = "delete",
                                    !.rpcs = <<[name |-> "deleteAccounts", force |-> TRUE]>>]
  /\ UNCHANGED <<tenantId, directory, calls, getUsersCall, providerCall, createUserCall, tenantCall>>

\* The directory answers the batch delete: the request fails, or deleteUsers
\* aggregates the reported errors.
deleteUsersDone ==
  /\ deleteUsersCall.pc = "delete"
  /\ \/ \E e \in NetworkErrors :
          deleteUsersCall' = [deleteUsersCall EXCEPT !.pc = "done",
                                                     !.result = DeleteUsersRejected(e)]
     \/ \E response \in BatchDeleteResponses :
          deleteUsersCall' = [deleteUsersCall EXCEPT
                                !.pc = "done", !.response = response,
                                !.result = deleteUsersThen(deleteUsersCall.uids.items, response)]
  /\ UNCHANGED <<tenantId, directory, calls, getUsersCall, providerCall, createUserCall, tenantCall>>

(***************************************************************************)
(* Provider configuration management: listProviderConfigs,                 *)
(* getProviderConfig, deleteProviderConfig, updateProviderConfig and       *)
(* createProviderConfig.                                                   *)
(***************************************************************************)
\* A provider id argument: whether it is a string, and the string held as
\* its first five characters and the rest.
ProviderId(prefix, rest) == [isString |-> TRUE, prefix |-> prefix, rest |-> rest]
NoProviderId == [isString |-> FALSE, prefix |-> "", rest |-> ""]
\* 'oidc.provider', 'oidc.', 'saml.provider', 'google.com', 'OIDC.provider',
\* 'oidc', 'saml', '' and undefined.
ProviderIds ==
  { ProviderId("oidc.", "provider"), ProviderId("oidc.", ""),
    ProviderId("saml.", "provider"), ProviderId("googl", "e.com"),
    ProviderId("OIDC.", "provider"), ProviderId("oidc", ""),
    ProviderId("saml", ""), ProviderId("", ""), NoProviderId }

\* OIDCConfig.isProviderId / SAMLConfig.isProviderId: a string that begins
\* with 'oidc.' / 'saml.'.
OIDCConfig_isProviderId(providerId) ==
  providerId.isString /\ providerId.prefix = "oidc."
SAMLConfig_isProviderId(providerId) ==
  providerId.isString /\ providerId.prefix = "saml."

\* A configuration argument of create/update: null or not an object, or an
\* object with its providerId property (NoProviderId when it has none).
NoConfig == [isObject |-> FALSE, providerId |-> NoProviderId]
ProviderConfigs == {NoConfig} \cup [isObject : {TRUE}, providerId : ProviderIds]

\* An AuthProviderConfigFilter argument: null/undefined, or an object with
\* its type property.
NoFilter == [isObject |-> FALSE, type |-> "undefined"]
ProviderConfigFilters ==
  {NoFilter} \cup [isObject : {TRUE}, type : {"oidc", "saml", "ldap", "undefined"}]

\* A listing response of the directory: the number of configurations of the
\* page and the nextPageToken property, which the response may not have.
NoListResponse == [count |-> 0, hasNextPageToken |-> FALSE, nextPageToken |-> ""]
ListResponses ==
  [count : 0..MaxConfigs, hasNextPageToken : {FALSE}, nextPageToken : {""}]
    \cup [count : 0..MaxConfigs, hasNextPageToken : {TRUE}, nextPageToken : {"", "token"}]

\* Errors the directory rejects a provider configuration RPC with.
ProviderRpcErrors == NetworkErrors \cup {"CONFIGURATION_NOT_FOUND"}

\* The promise a provider configuration operation returns: pending,
\* rejected, resolved with a configuration of a kind (or nothing), or
\* resolved with a page of configurations.
ProviderPending ==
  [status |-> "pending", error |-> "", kind |-> "none", count |-> 0,
   hasPageToken |-> FALSE, pageToken |-> ""]
ProviderRejected(code) == [ProviderPending EXCEPT !.status = "rejected", !.error = code]
ProviderResolved(kind) == [ProviderPending EXCEPT !.status = "resolved", !.kind = kind]

IdleProviderCall ==
  [ op |-> "none", pc |-> "idle", providerId |-> NoProviderId, config |-> NoConfig,
    options |-> NoFilter, rpcs |-> <<>>, response |-> NoListResponse,
    result |-> ProviderPending ]

\* The call once the operation has issued its RPC / has rejected at once.
ProviderRpc(call, name) == [call EXCEPT !.pc = "rpc", !.rpcs = <<name>>]
ProviderReject(call, code) ==
  [call EXCEPT !.pc = "done", !.result = ProviderRejected(code)]

\* Variant of processResponse: the page always has a pageToken key.
processResponse_alwaysToken(response, kind) ==
  [ProviderResolved(kind) EXCEPT !.count = response.count,
                                 !.hasPageToken = TRUE,
                                 !.pageToken = response.nextPageToken]

\* processResponse of listProviderConfigs: the page of configurations, with
\* a pageToken key iff the response has a nextPageToken property.
processResponse(response, kind) ==
  IF response.hasNextPageToken
  THEN [ProviderResolved(kind) EXCEPT !.count = response.count,
                                      !.hasPageToken = TRUE,
                                      !.pageToken = response.nextPageToken]
  ELSE [ProviderResolved(kind) EXCEPT !.count = response.count]

listProviderConfigs(options) ==
  /\ providerCall.pc \in {"idle", "done"}
  /\ LET call == [IdleProviderCall EXCEPT !.op = "listProviderConfigs",
                                          !.options = options]
     IN providerCall' =
          IF options.isObject /\ options.type = "oidc"
          THEN ProviderRpc(call, "listOAuthIdpConfigs")
          ELSE IF options.isObject /\ options.type = "saml"
          THEN ProviderRpc(call, "listInboundSamlConfigs")
          ELSE ProviderReject(call, "INVALID_ARGUMENT")
  /\ UNCHANGED <<tenantId, directory, calls, getUsersCall, deleteUsersCall, createUserCall, tenantCall>>

\* Variant of getProviderConfig: every string id takes the OIDC path.
getProviderConfig_prefixUnchecked(providerId) ==
  /\ providerCall.pc \in {"idle", "done"}
  /\ LET call == [IdleProviderCall EXCEPT !.op = "getProviderConfig",
                                          !.providerId = providerId]
     IN providerCall' =
          IF providerId.isString
          THEN ProviderRpc(call, "getOAuthIdpConfig")
          ELSE ProviderReject(call, "INVALID_PROVIDER_ID")
  /\ UNCHANGED <<tenantId, directory, calls, getUsersCall, deleteUsersCall, createUserCall, tenantCall>>

getProviderConfig(providerId) ==
  /\ providerCall.pc \in {"idle", "done"}
  /\ LET call == [IdleProviderCall EXCEPT !.op = "getProviderConfig",
                                          !.providerId = providerId]
     IN providerCall' =
          IF OIDCConfig_isProviderId(providerId)
          THEN ProviderRpc(call, "getOAuthIdpConfig")
          ELSE IF SAMLConfig_isProviderId(providerId)
          THEN ProviderRpc(call, "getInboundSamlConfig")
          ELSE ProviderReject(call, "INVALID_PROVIDER_ID")
  /\ UNCHANGED <<tenantId, directory, calls, getUsersCall, deleteUsersCall, createUserCall, tenantCall>>

deleteProviderConfig(providerId) ==
  /\ providerCall.pc \in {"idle", "done"}
  /\ LET call == [IdleProviderCall EXCEPT !.op = "deleteProviderConfig",
                                          !.providerId = providerId]
     IN providerCall' =
          IF OIDCConfig_isProviderId(providerId)
          THEN ProviderRpc(call, "deleteOAuthIdpConfig")
          ELSE IF SAMLConfig_isProviderId(providerId)
          THEN ProviderRpc(call, "deleteInboundSamlConfig")
          ELSE ProviderReject(call, "INVALID_PROVIDER_ID")
  /\ UNCHANGED <<tenantId, directory, calls, getUsersCall, deleteUsersCall, createUserCall, tenantCall>>

\* Variant of updateProviderConfig: the provider id is classified before the
\* configuration is looked at.
updateProviderConfig_idFirst(providerId, updatedConfig) ==
  /\ providerCall.pc \in {"idle", "done"}
  /\ LET call == [IdleProviderCall EXCEPT !.op = "updateProviderConfig",
                                          !.providerId = providerId,
                                          !.config = updatedConfig]
     IN providerCall' =
          IF ~(providerId.isString /\ providerId.prefix \in {"oidc.", "saml."})
          THEN ProviderReject(call, "INVALID_PROVIDER_ID")
          ELSE IF ~updatedConfig.isObject
          THEN ProviderReject(call, "INVALID_CONFIG")
          ELSE IF providerId.prefix = "oidc."
          THEN ProviderRpc(call, "updateOAuthIdpConfig")
          ELSE ProviderRpc(call, "updateInboundSamlConfig")
  /\ UNCHANGED <<tenantId, directory, calls, getUsersCall, deleteUsersCall, createUserCall, tenantCall>>

updateProviderConfig(providerId, updatedConfig) ==
  /\ providerCall.pc \in {"idle", "done"}
  /\ LET call == [IdleProviderCall EXCEPT !.op = "updateProviderConfig",
                                          !.providerId = providerId,
                                          !.config = updatedConfig]
     IN providerCall' =
          IF ~isNonNullObject(updatedConfig)
          THEN ProviderReject(call, "INVALID_CONFIG")
          ELSE IF OIDCConfig_isProviderId(providerId)
          THEN ProviderRpc(call, "updateOAuthIdpConfig")
          ELSE IF SAMLConfig_isProviderId(providerId)
          THEN ProviderRpc(call, "updateInboundSamlConfig")
          ELSE ProviderReject(call, "INVALID_PROVIDER_ID")
  /\ UNCHANGED <<tenantId, directory, calls, getUsersCall, deleteUsersCall, createUserCall, tenantCall>>

createProviderConfig(config) ==
  /\ providerCall.pc \in {"idle", "done"}
  /\ LET call == [IdleProviderCall EXCEPT !.op = "createProviderConfig",
                                          !.config = config]
     IN providerCall' =
          IF ~isNonNullObject(config)
          THEN ProviderReject(call, "INVALID_CONFIG")
          ELSE IF OIDCConfig_isProviderId(config.providerId)
          THEN ProviderRpc(call, "createOAuthIdpConfig")
          ELSE IF SAMLConfig_isProviderId(config.providerId)
          THEN ProviderRpc(call, "createInboundSamlConfig")
          ELSE ProviderReject(call, "INVALID_PROVIDER_ID")
  /\ UNCHANGED <<tenantId, directory, calls, getUsersCall, deleteUsersCall, createUserCall, tenantCall>>

\* The kind of configuration an RPC answers with.
OIDCRpcs ==
  {"listOAuthIdpConfigs", "getOAuthIdpConfig", "deleteOAuthIdpConfig",
   "updateOAuthIdpConfig", "createOAuthIdpConfig"}
rpcKind(name) == IF name \in OIDCRpcs THEN "oidc" ELSE "saml"

\* The directory answers the RPC of a provider configuration operation: it
\* fails, and the failure is passed on, or it succeeds, and the operation
\* resolves with the page, with the configuration, or with nothing (delete).
providerConfigDone ==
  /\ providerCall.pc = "rpc"
  /\ \/ \E e \in ProviderRpcErrors :
          providerCall' = [providerCall EXCEPT !.pc = "done",
                                               !.result = ProviderRejected(e)]
     \/ /\ providerCall.op = "listProviderConfigs"
        /\ \E response \in ListResponses :
             providerCall' =
               [providerCall EXCEPT
                  !.pc = "done", !.response = response,
                  !.result = processResponse(response, rpcKind(providerCall.rpcs[1]))]
     \/ /\ providerCall.op = "deleteProviderConfig"
        /\ providerCall' = [providerCall EXCEPT !.pc = "done",
                                                !.result = ProviderResolved("void")]
     \/ /\ providerCall.op \in {"getProviderConfig", "updateProviderConfig",
                                "createProviderConfig"}
        /\ providerCall' =
             [providerCall EXCEPT
                !.pc = "done",
                !.result = ProviderResolved(rpcKind(providerCall.rpcs[1]))]
  /\ UNCHANGED <<tenantId, directory, calls, getUsersCall, deleteUsersCall, createUserCall, tenantCall>>

(***************************************************************************)
(* createUser, and deleteUser run by another caller.                       *)
(***************************************************************************)
\* CreateRequest properties: with a uid of the caller's choice, or without
\* (the directory picks one).
CreateRequests == [hasUid : {TRUE}, uid : Subjects] \cup {[hasUid |-> FALSE, uid |-> ""]}

\* Errors the directory rejects createNewAccount with.
CreateAccountErrors ==
  NetworkErrors \cup {"UID_ALREADY_EXISTS", "EMAIL_ALREADY_EXISTS", "USER_NOT_FOUND"}

\* The promise createUser returns: pending, resolved with the record of a
\* uid, or rejected.
CreateUserPending == [status |-> "pending", error |-> "", uid |-> ""]
CreateUserResolved(uid) == [status |-> "resolved", error |-> "", uid |-> uid]
CreateUserRejected(code) == [status |-> "rejected", error |-> code, uid |-> ""]

\* createError / fetchError: what the createNewAccount step and the getUser
\* step rejected with ("" when the step did not reject).
IdleCreateUser ==
  [ pc |-> "idle", properties |-> [hasUid |-> FALSE, uid |-> ""], uid |-> "",
    rpcs |-> <<>>, createError |-> "", fetchError |-> "",
    result |-> CreateUserPending ]

\* The catch callback at the end of createUser's chain.
createUserCatch(error) ==
  IF error = "USER_NOT_FOUND"
  THEN CreateUserRejected("INTERNAL_ERROR")
  ELSE CreateUserRejected(error)

createUser(properties) ==
  /\ createUserCall.pc \in {"idle", "done"}
  /\ createUserCall' = [IdleCreateUser EXCEPT !.pc = "create",
                                              !.properties = properties,
                                              !.rpcs = <<"createNewAccount">>]
  /\ UNCHANGED <<tenantId, directory, calls, getUsersCall, deleteUsersCall, providerCall, tenantCall>>

\* The directory answers createNewAccount: it rejects, and the rejection
\* runs through the catch callback, or it creates the account and resolves
\* with its uid, and the then callback calls getUser(uid).
createNewAccountDone ==
  /\ createUserCall.pc = "create"
  /\ \/ /\ \E e \in CreateAccountErrors :
             createUserCall' = [createUserCall EXCEPT !.pc = "done", !.createError = e,
                                                      !.result = createUserCatch(e)]
        /\ UNCHANGED directory
     \/ \E uid \in Subjects :
          /\ createUserCall.properties.hasUid => uid = createUserCall.properties.uid
          /\ ~directory[uid].exists
          /\ directory' = [directory EXCEPT ![uid] =
                             [exists |-> TRUE, tokensValidAfterTime |-> NoTime]]
          /\ createUserCall' =
               [createUserCall EXCEPT !.pc = "fetch", !.uid = uid,
                                      !.rpcs = Append(@, "getAccountInfoByUid")]
  /\ UNCHANGED <<tenantId, calls, getUsersCall, deleteUsersCall, providerCall, tenantCall>>

\* The directory answers the getUser of createUser: the request fails or
\* the account is gone, and the rejection runs through the catch callback,
\* or the record is returned.
createUserFetchDone ==
  /\ createUserCall.pc = "fetch"
  /\ \/ \E e \in NetworkErrors :
          createUserCall' = [createUserCall EXCEPT !.pc = "done", !.fetchError = e,
                                                   !.result = createUserCatch(e)]
     \/ /\ ~directory[createUserCall.uid].exists
        /\ createUserCall' =
             [createUserCall EXCEPT !.pc = "done", !.fetchError = "USER_NOT_FOUND",
                                    !.result = createUserCatch("USER_NOT_FOUND")]
     \/ /\ directory[createUserCall.uid].exists
        /\ createUserCall' =
             [createUserCall EXCEPT !.pc = "done",
                                    !.result = CreateUserResolved(createUserCall.uid)]
  /\ UNCHANGED <<tenantId, directory, calls, getUsersCall, deleteUsersCall, providerCall, tenantCall>>

\* deleteUser(uid), run to completion by another caller: the account is
\* removed from the directory.
deleteUser(uid) ==
  /\ directory[uid].exists
  /\ directory' = [directory EXCEPT ![uid] = NoAccount]
  /\ UNCHANGED <<tenantId, calls, getUsersCall, otherVars>>

(***************************************************************************)
(* TenantUtils.buildServerRequest, TenantUtils.validate and                *)
(* validateTestPhoneNumbers (tenant-internal.ts).                          *)
(***************************************************************************)
MAXIMUM_TEST_PHONE_NUMBERS == 10

\* A test code: whether the value is a string, and its characters.
Code(chars) == [isString |-> TRUE, chars |-> chars]
AsciiDigits == {"0", "1", "2", "3", "4", "5", "6", "7", "8", "9"}
GoodCode == Code(<<"1", "2", "3", "4", "5", "6">>)
\* '123456', '12345', '1234567', '12345a', '12345' followed by the
\* Arabic-Indic digit three, '', and the number 123456.
Codes ==
  { GoodCode,
    Code(<<"1", "2", "3", "4", "5">>),
    Code(<<"1", "2", "3", "4", "5", "6", "7">>),
    Code(<<"1", "2", "3", "4", "5", "a">>),
    Code(<<"1", "2", "3", "4", "5", "arabic-indic digit three">>),
    Code(<<>>),
    [isString |-> FALSE, chars |-> <<"1", "2", "3", "4", "5", "6">>] }

\* /^[\d]{6}$/.test(code): six characters, each an ASCII digit.
sixDigits(code) ==
  Len(code.chars) = 6 /\ \A i \in 1..Len(code.chars) : code.chars[i] \in AsciiDigits

\* A key of the map: the id tells the keys of one map apart, e164 says
\* whether the string is a valid E.164 phone number.
PhoneNumber(id, e164) == [id |-> id, e164 |-> e164]
isPhoneNumber(phoneNumber) == phoneNumber.e164
isString(value) == value.isString

\* A testPhoneNumbers value: undefined, null, a value that is not a plain
\* map (a string, an array), or a map, held as its entries in key order.
TestPhoneNumbers(kind, entries) == [kind |-> kind, entries |-> entries]
NoTestPhoneNumbers == TestPhoneNumbers("undefined", <<>>)
NullTestPhoneNumbers == TestPhoneNumbers("null", <<>>)
NotAMap == TestPhoneNumbers("other", <<>>)
isObject(testPhoneNumbers) == testPhoneNumbers.kind = "map"

Entries == [phoneNumber : [id : 1..MaxEntries, e164 : BOOLEAN], code : Codes]
\* The maps of up to MaxEntries entries, keys distinct.
SmallMaps ==
  { TestPhoneNumbers("map", entries) :
      entries \in { e \in UNION { [1..n -> Entries] : n \in 0..MaxEntries } :
                      \A i, j \in 1..Len(e) :
                        i # j => e[i].phoneNumber.id # e[j].phoneNumber.id } }
\* A map of n entries, all valid but the entry at badAt (none when badAt is
\* 0), whose key (bad = "key") or code (bad = "code") is invalid.
LargeMap(n, badAt, bad) ==
  TestPhoneNumbers("map",
    [i \in 1..n |->
       [phoneNumber |-> PhoneNumber(i, ~(bad = "key" /\ i = badAt)),
        code |-> IF bad = "code" /\ i = badAt
                 THEN Code(<<"1", "2", "3", "4", "5">>) ELSE GoodCode]])
LargeMaps ==
  { LargeMap(n, badAt, bad) :
      n \in {MAXIMUM_TEST_PHONE_NUMBERS, MAXIMUM_TEST_PHONE_NUMBERS + 1},
      badAt \in {0, 1, MAXIMUM_TEST_PHONE_NUMBERS}, bad \in {"key", "code"} }
TestPhoneNumbersArgs == {NotAMap} \cup SmallMaps \cup LargeMaps

\* What a validation did: returned, or threw an error with a code; source
\* is the check that threw and key the key or entry the message names.
Returned == [threw |-> FALSE, code |-> "", source |-> "", key |-> ""]
Threw(code, source, key) == [threw |-> TRUE, code |-> code, source |-> source, key |-> key]

\* Variant of validateTestPhoneNumbers: the entries are checked before the
\* size of the map.
validateTestPhoneNumbers_entriesFirst(testPhoneNumbers) ==
  IF testPhoneNumbers.kind # "map"
  THEN Threw("INVALID_ARGUMENT", "testPhoneNumbers", "")
  ELSE IF \E i \in 1..Len(testPhoneNumbers.entries) :
            \/ ~testPhoneNumbers.entries[i].phoneNumber.e164
            \/ ~testPhoneNumbers.entries[i].code.isString
            \/ ~sixDigits(testPhoneNumbers.entries[i].code)
  THEN Threw("INVALID_TESTING_PHONE_NUMBER", "testPhoneNumbers", "entry")
  ELSE IF Len(testPhoneNumbers.entries) > MAXIMUM_TEST_PHONE_NUMBERS
  THEN Threw("MAXIMUM_TEST_PHONE_NUMBER_EXCEEDED", "testPhoneNumbers", "")
  ELSE Returned

validateTestPhoneNumbers(testPhoneNumbers) ==
  IF ~isObject(testPhoneNumbers)
  THEN Threw("INVALID_ARGUMENT", "testPhoneNumbers", "")
  ELSE IF Len(testPhoneNumbers.entries) > MAXIMUM_TEST_PHONE_NUMBERS
  THEN Threw("MAXIMUM_TEST_PHONE_NUMBER_EXCEEDED", "testPhoneNumbers", "")
  ELSE IF \E i \in 1..Len(testPhoneNumbers.entries) :
            \/ ~isPhoneNumber(testPhoneNumbers.entries[i].phoneNumber)
            \/ ~isString(testPhoneNumbers.entries[i].code)
            \/ ~sixDigits(testPhoneNumbers.entries[i].code)
  THEN Threw("INVALID_TESTING_PHONE_NUMBER", "testPhoneNumbers", "entry")
  ELSE Returned

\* The values of the options of a tenant request.  displayName: undefined,
\* '', 'tenant', or a value that is not a string.
NoDisplayName == [defined |-> FALSE, isString |-> FALSE, str |-> ""]
DisplayNames ==
  { NoDisplayName,
    [defined |-> TRUE, isString |-> TRUE, str |-> ""],
    [defined |-> TRUE, isString |-> TRUE, str |-> "tenant"],
    [defined |-> TRUE, isString |-> FALSE, str |-> ""] }
\* emailSignInConfig / multiFactorConfig: undefined, or a value its own
\* translator accepts or throws on.
NoDelegatedConfig == [defined |-> FALSE, wellFormed |-> TRUE]
DelegatedConfigs == {NoDelegatedConfig} \cup [defined : {TRUE}, wellFormed : BOOLEAN]
\* testPhoneNumbers of a request: undefined, null, not a map, {}, one valid
\* pair, one pair with a five digit code, eleven valid pairs.
RequestTestPhoneNumbers ==
  { NoTestPhoneNumbers, NullTestPhoneNumbers, NotAMap,
    TestPhoneNumbers("map", <<>>),
    LargeMap(1, 0, "code"), LargeMap(1, 1, "code"),
    LargeMap(MAXIMUM_TEST_PHONE_NUMBERS + 1, 0, "code") }

\* The own keys a request may carry besides the four options, in the order
\* the for-in loop visits them.
ExtraKeys == {"bogusKey", "tenantId", "toString"}
ExtraKeySeqs ==
  { k \in UNION { [1..n -> ExtraKeys] : n \in 0..MaxExtraKeys } :
      \A i, j \in 1..Len(k) : i # j => k[i] # k[j] }

\* A tenant options argument: null or not an object, or an object.
NoTenantOptions ==
  [ isObject |-> FALSE, extraKeys |-> <<>>, displayName |-> NoDisplayName,
    emailSignInConfig |-> NoDelegatedConfig, multiFactorConfig |-> NoDelegatedConfig,
    testPhoneNumbers |-> NoTestPhoneNumbers ]
TenantOptionsArgs ==
  {NoTenantOptions} \cup
  [ isObject : {TRUE}, extraKeys : ExtraKeySeqs, displayName : DisplayNames,
    emailSignInConfig : DelegatedConfigs, multiFactorConfig : DelegatedConfigs,
    testPhoneNumbers : RequestTestPhoneNumbers ]

\* key in validKeys: the four own properties of validKeys, and the
\* properties validKeys inherits from Object.prototype.
validKeys == {"displayName", "emailSignInConfig", "multiFactorConfig", "testPhoneNumbers"}
ObjectPrototypeKeys ==
  {"constructor", "hasOwnProperty", "isPrototypeOf", "propertyIsEnumerable",
   "toLocaleString", "toString", "valueOf", "__proto__"}
inValidKeys(key) == key \in validKeys \cup ObjectPrototypeKeys

\* The first key of the request the for-in loop throws on.
firstInvalidKey(keys) ==
  keys[CHOOSE i \in 1..Len(keys) :
         /\ ~inValidKeys(keys[i])
         /\ \A j \in 1..(i - 1) : inValidKeys(keys[j])]

\* EmailSignInConfig.buildServerRequest / MultiFactorAuthConfig
\* .buildServerRequest used as validators: they throw on a malformed value.
delegateThrows(config) == config.defined /\ ~config.wellFormed

validate(request, createRequest) ==
  IF ~isNonNullObject(request)
  THEN Threw("INVALID_ARGUMENT", "request", "")
  ELSE IF \E i \in 1..Len(request.extraKeys) : ~inValidKeys(request.extraKeys[i])
  THEN Threw("INVALID_ARGUMENT", "key", firstInvalidKey(request.extraKeys))
  ELSE IF request.displayName.defined /\ ~isNonEmptyString(request.displayName)
  THEN Threw("INVALID_ARGUMENT", "displayName", "")
  ELSE IF delegateThrows(request.emailSignInConfig)
  THEN Threw("INVALID_ARGUMENT", "emailSignInConfig", "")
  ELSE IF request.testPhoneNumbers.kind \notin {"undefined", "null"}
          /\ validateTestPhoneNumbers(request.testPhoneNumbers).threw
  THEN validateTestPhoneNumbers(request.testPhoneNumbers)
  ELSE IF request.testPhoneNumbers.kind = "null" /\ createRequest
  THEN Threw("INVALID_ARGUMENT", "testPhoneNumbers", "")
  ELSE IF delegateThrows(request.multiFactorConfig)
  THEN Threw("INVALID_ARGUMENT", "multiFactorConfig", "")
  ELSE Returned

\* The server request buildServerRequest assembles: which keys it has, and
\* the test phone numbers it carries.
NoServerRequest ==
  [ built |-> FALSE, hasEmailSignIn |-> FALSE, hasDisplayName |-> FALSE,
    hasMfaConfig |-> FALSE, hasTestPhoneNumbers |-> FALSE,
    testPhoneNumbers |-> NoTestPhoneNumbers ]

\* Variant of assemble: a null testPhoneNumbers is copied as it is.
assemble_nullKept(tenantOptions) ==
  [ built |-> TRUE,
    hasEmailSignIn |-> tenantOptions.emailSignInConfig.defined,
    hasDisplayName |-> tenantOptions.displayName.defined,
    hasMfaConfig |-> tenantOptions.multiFactorConfig.defined,
    hasTestPhoneNumbers |-> tenantOptions.testPhoneNumbers.kind # "undefined",
    testPhoneNumbers |-> tenantOptions.testPhoneNumbers ]

\* The assembly of buildServerRequest: a key for every option whose type is
\* not 'undefined'; testPhoneNumbers ?? {} turns null into the empty map.
assemble(tenantOptions) ==
  [ built |-> TRUE,
    hasEmailSignIn |-> tenantOptions.emailSignInConfig.defined,
    hasDisplayName |-> tenantOptions.displayName.defined,
    hasMfaConfig |-> tenantOptions.multiFactorConfig.defined,
    hasTestPhoneNumbers |-> tenantOptions.testPhoneNumbers.kind # "undefined",
    testPhoneNumbers |->
      IF tenantOptions.testPhoneNumbers.kind = "undefined" THEN NoTestPhoneNumbers
      ELSE IF tenantOptions.testPhoneNumbers.kind = "null"
      THEN TestPhoneNumbers("map", <<>>)
      ELSE tenantOptions.testPhoneNumbers ]

IdleTenantCall ==
  [ op |-> "none", tenantOptions |-> NoTenantOptions, createRequest |-> FALSE,
    testPhoneNumbers |-> NoTestPhoneNumbers, outcome |-> Returned,
    request |-> NoServerRequest ]

\* TenantUtils.buildServerRequest(tenantOptions, createRequest): validate,
\* then assemble.  The function keeps no state between calls, so one call
\* is followed.
buildServerRequest(tenantOptions, createRequest) ==
  /\ tenantCall.op = "none"
  /\ tenantCall' =
       [IdleTenantCall EXCEPT
          !.op = "buildServerRequest", !.tenantOptions = tenantOptions,
          !.createRequest = createRequest,
          !.outcome = validate(tenantOptions, createRequest),
          !.request = IF validate(tenantOptions, createRequest).threw
                      THEN NoServerRequest ELSE assemble(tenantOptions)]
  /\ UNCHANGED <<tenantId, directory, calls, getUsersCall, deleteUsersCall, providerCall,
                 createUserCall>>

\* A direct call of the exported validateTestPhoneNumbers.
callValidateTestPhoneNumbers(testPhoneNumbers) ==
  /\ tenantCall.op = "none"
  /\ tenantCall' =
       [IdleTenantCall EXCEPT
          !.op = "validateTestPhoneNumbers", !.testPhoneNumbers = testPhoneNumbers,
          !.outcome = validateTestPhoneNumbers(testPhoneNumbers)]
  /\ UNCHANGED <<tenantId, directory, calls, getUsersCall, deleteUsersCall, providerCall,
                 createUserCall>>

\* No management operation has been called.
OtherIdle ==
  /\ deleteUsersCall = IdleDeleteUsers
  /\ providerCall = IdleProviderCall
  /\ createUserCall = IdleCreateUser
  /\ tenantCall = IdleTenantCall

Init ==
  /\ tenantId \in {NoTenant, "T1"}
  /\ directory \in [Subjects -> {a \in Accounts : ~a.exists => a = NoAccount}]
  /\ calls = [c \in Calls |-> IdleCall]
  /\ getUsersCall = IdleGetUsers
  /\ OtherIdle

Next ==
  \/ \E c \in Calls, t \in Tokens, cr \in BOOLEAN : verifyIdToken(c, t, cr)
  \/ \E c \in Calls, t \in Tokens, cr \in BOOLEAN : verifySessionCookie(c, t, cr)
  \/ \E c \in Calls, t \in Tokens, o \in SessionCookieOptions : createSessionCookie(c, t, o)
  \/ \E c \in Calls : verifyJWTDone(c)
  \/ \E c \in Calls : getUserDone(c)
  \/ \E c \in Calls : revocationCheck(c)
  \/ \E c \in Calls : tenantCheck(c)
  \/ \E c \in Calls : createSessionCookieDone(c)
  \/ \E uid \in Subjects : revokeRefreshTokens(uid)

Spec == Init /\ [][Next]_vars

\* Two calls in flight on one instance, both on tokens of the subject u1,
\* with revokeRefreshTokens run by other callers in between.
ConcurrentCalls == {"c1", "c2"}
JwtStrings == { t \in Tokens : isNonEmptyString(t) }

ConcurrentInit ==
  /\ tenantId \in {NoTenant, "T1"}
  /\ directory = [uid \in Subjects |->
                    IF uid = "u1"
                    THEN [exists |-> TRUE, tokensValidAfterTime |-> NoTime]
                    ELSE NoAccount]
  /\ calls = [c \in ConcurrentCalls |-> IdleCall]
  /\ getUsersCall = IdleGetUsers
  /\ OtherIdle

ConcurrentNext ==
  \/ \E c \in ConcurrentCalls, t \in JwtStrings, cr \in BOOLEAN : verifyIdToken(c, t, cr)
  \/ \E c \in ConcurrentCalls, t \in JwtStrings, o \in SessionCookieOptions :
       createSessionCookie(c, t, o)
  \/ \E c \in ConcurrentCalls : verifyJWTDone(c) /\ calls'[c].decoded.sub # "u2"
  \/ \E c \in ConcurrentCalls : getUserDone(c)
  \/ \E c \in ConcurrentCalls : revocationCheck(c)
  \/ \E c \in ConcurrentCalls : tenantCheck(c)
  \/ \E c \in ConcurrentCalls : createSessionCookieDone(c)
  \/ \E uid \in Subjects : revokeRefreshTokens(uid)

ConcurrentSpec == ConcurrentInit /\ [][ConcurrentNext]_vars

\* The batch lookup on its own, on a base instance.
GetUsersInit ==
  /\ tenantId = NoTenant
  /\ directory = [uid \in Subjects |-> NoAccount]
  /\ calls = [c \in Calls |-> IdleCall]
  /\ getUsersCall = IdleGetUsers
  /\ OtherIdle

GetUsersNext ==
  \/ \E identifiers \in IdentifierArgs : getUsers(identifiers)
  \/ getUsersDone

GetUsersSpec == GetUsersInit /\ [][GetUsersNext]_vars

\* The batch delete on its own, on a base instance.
DeleteUsersInit == GetUsersInit

DeleteUsersNext ==
  \/ \E uids \in UidsArgs : deleteUsers(uids)
  \/ deleteUsersDone

DeleteUsersSpec == DeleteUsersInit /\ [][DeleteUsersNext]_vars

(***************************************************************************)
(* Properties of verification and session-cookie creation (under Spec).    *)
(***************************************************************************)
VerifyOps == {"verifyIdToken", "verifySessionCookie"}
IsVerify(call) == call.op \in VerifyOps
TenantBound == tenantId # NoTenant
Issued(call, name) == \E i \in 1..Len(call.rpcs) : call.rpcs[i].name = name
\* The cutoff of a fetched user record, in milliseconds.
CutoffMillis(user) == user.tokensValidAfterTime.sec * 1000 + user.tokensValidAfterTime.ms

\* C1: verifyIdToken / verifySessionCookie with checkRevoked = false issue no
\* Account Directory call at any point of the call, and once the local
\* verifier has decoded the token the base verification is resolved with
\* exactly the decoded claims; whatever the call resolves with is those claims.
C1_NoRevocationCheckNoIO ==
  \A c \in Calls :
    (IsVerify(calls[c]) /\ ~calls[c].checkRevoked) =>
      /\ calls[c].rpcs = <<>>
      /\ calls[c].decoded # NoDecoded => calls[c].base = Resolved(calls[c].decoded)
      /\ (calls[c].decoded # NoDecoded /\ ~TenantBound) =>
           calls[c].result = Resolved(calls[c].decoded)
      /\ calls[c].result.status = "resolved" =>
           calls[c].result = Resolved(calls[c].decoded)

C1_Witness ==
  \E c \in Calls :
    /\ IsVerify(calls[c]) /\ ~calls[c].checkRevoked /\ calls[c].pc = "done"
    /\ calls[c].decoded \in DecodedIdTokens
    /\ calls[c].result = Resolved(calls[c].decoded)

\* A finished verification on a tenant-bound instance of a token the local
\* verifier accepted and whose tenant claim names another tenant.
OtherTenantVerified(call) ==
  /\ TenantBound /\ IsVerify(call) /\ call.pc = "done"
  /\ call.decoded \in DecodedIdTokens
  /\ call.decoded.tenant \in TenantIds \ {tenantId}

\* C2 as stated: such a verification always fails with MISMATCHING_TENANT_ID,
\* for both values of checkRevoked and every state of the account record.
C2_AlwaysMismatch ==
  \A c \in Calls :
    OtherTenantVerified(calls[c]) => calls[c].result = Rejected("MISMATCHING_TENANT_ID")

\* C2 (amended): such a verification always fails; it fails with
\* MISMATCHING_TENANT_ID whenever the base verification succeeded (always so
\* with checkRevoked = false), and with the base verification's own error
\* when the account fetch failed or found the token revoked.
C2_MismatchAfterBase ==
  \A c \in Calls :
    OtherTenantVerified(calls[c]) =>
      /\ calls[c].result.status = "rejected"
      /\ calls[c].base.status = "resolved" =>
           calls[c].result = Rejected("MISMATCHING_TENANT_ID")
      /\ calls[c].base.status = "rejected" =>
           /\ calls[c].checkRevoked
           /\ calls[c].result = calls[c].base
           /\ calls[c].result.error # "MISMATCHING_TENANT_ID"
      /\ ~calls[c].checkRevoked => calls[c].result = Rejected("MISMATCHING_TENANT_ID")

C2_Witness ==
  \E c \in Calls :
    /\ OtherTenantVerified(calls[c]) /\ calls[c].checkRevoked
    /\ calls[c].user.exists
    /\ calls[c].result = Rejected("MISMATCHING_TENANT_ID")

\* C3: a tenant-bound instance never resolves verifyIdToken or
\* verifySessionCookie with a decoded token whose tenant claim differs from
\* the instance's tenantId.
C3_ResolvedTokenHasTenant ==
  \A c \in Calls :
    (TenantBound /\ IsVerify(calls[c]) /\ calls[c].result.status = "resolved") =>
      calls[c].result.token.tenant = tenantId

C3_Witness ==
  \E c \in Calls :
    /\ TenantBound /\ IsVerify(calls[c]) /\ calls[c].checkRevoked
    /\ calls[c].result.status = "resolved"
    /\ calls[c].result.token \in DecodedIdTokens

\* A verification with checkRevoked = true whose account fetch has returned
\* a user record.
FetchedUser(call) ==
  /\ IsVerify(call) /\ call.checkRevoked /\ call.user.exists
  /\ call.pc \in {"tenantCheck", "done"}

\* C4: with checkRevoked = true and a fetched record with cutoff V (ms), the
\* base verification fails iff auth_time * 1000 < V, with ID_TOKEN_REVOKED for
\* verifyIdToken and SESSION_COOKIE_REVOKED for verifySessionCookie, and
\* otherwise (equality included) resolves with the decoded token unchanged.
C4_RevokedIffBeforeCutoff ==
  \A c \in Calls :
    (FetchedUser(calls[c]) /\ calls[c].user.tokensValidAfterTime.defined) =>
      IF calls[c].decoded.auth_time * 1000 < CutoffMillis(calls[c].user)
      THEN /\ calls[c].base =
                Rejected(IF calls[c].op = "verifyIdToken"
                         THEN "ID_TOKEN_REVOKED" ELSE "SESSION_COOKIE_REVOKED")
           /\ calls[c].result = calls[c].base
      ELSE /\ calls[c].base = Resolved(calls[c].decoded)
           /\ ~TenantBound => calls[c].result = calls[c].base

C4_Witness ==
  \E c \in Calls :
    /\ FetchedUser(calls[c]) /\ calls[c].user.tokensValidAfterTime.defined
    /\ calls[c].decoded.auth_time * 1000 = CutoffMillis(calls[c].user)
    /\ calls[c].base = Resolved(calls[c].decoded)

\* C5: with checkRevoked = true, a fetched record without a tokens-valid-after
\* time never yields a revocation error, whatever auth_time is: the base
\* verification resolves with the decoded token.
C5_NoCutoffNeverRevokes ==
  \A c \in Calls :
    (FetchedUser(calls[c]) /\ ~calls[c].user.tokensValidAfterTime.defined) =>
      /\ calls[c].base = Resolved(calls[c].decoded)
      /\ calls[c].result.error \notin {"ID_TOKEN_REVOKED", "SESSION_COOKIE_REVOKED"}
      /\ ~TenantBound => calls[c].result = Resolved(calls[c].decoded)

C5_Witness ==
  \E c \in Calls :
    /\ FetchedUser(calls[c]) /\ ~calls[c].user.tokensValidAfterTime.defined
    /\ calls[c].decoded.auth_time = 0
    /\ calls[c].result = Resolved(calls[c].decoded)

\* C6: on a tenant-bound instance the createSessionCookie RPC is issued only
\* for an idToken that the local verifier has accepted and whose tenant claim
\* equals the instance's tenantId.
C6_MintOnlyAfterTenantCheck ==
  \A c \in Calls :
    (TenantBound /\ calls[c].op = "createSessionCookie"
       /\ Issued(calls[c], "createSessionCookie")) =>
      /\ calls[c].verifier = "idToken"
      /\ calls[c].decoded \in DecodedIdTokens
      /\ calls[c].base = Resolved(calls[c].decoded)
      /\ calls[c].decoded.tenant = tenantId

C6_Witness ==
  \E c \in Calls :
    /\ TenantBound /\ calls[c].op = "createSessionCookie"
    /\ Issued(calls[c], "createSessionCookie")
    /\ calls[c].result = ResolvedCookie("cookie")

\* A createSessionCookie call whose options are missing or whose expiresIn is
\* undefined or not a number.
BadDurationCall(call) ==
  /\ call.op = "createSessionCookie"
  /\ (~call.options.isObject \/ call.options.expiresInType # "number")

\* C7 as stated: such a call, on either instance and for any idToken, rejects
\* with INVALID_SESSION_COOKIE_DURATION and issues no network call.
C7_AlwaysInvalidDuration ==
  \A c \in Calls :
    BadDurationCall(calls[c]) =>
      /\ calls[c].result = Rejected("INVALID_SESSION_COOKIE_DURATION")
      /\ calls[c].rpcs = <<>>

\* C7 (amended): such a call issues no network call and invokes no verifier;
\* it rejects with INVALID_SESSION_COOKIE_DURATION, except on a tenant-bound
\* instance given an idToken that is not a non-empty string, where the
\* idToken check comes first and it rejects with INVALID_ID_TOKEN.
C7_InvalidDurationNoIO ==
  \A c \in Calls :
    BadDurationCall(calls[c]) =>
      /\ calls[c].rpcs = <<>>
      /\ calls[c].verifier = "none"
      /\ calls[c].pc = "done"
      /\ calls[c].result =
           IF TenantBound /\ ~(calls[c].idToken.isString /\ calls[c].idToken.str # "")
           THEN Rejected("INVALID_ID_TOKEN")
           ELSE Rejected("INVALID_SESSION_COOKIE_DURATION")

C7_Witness ==
  \E c \in Calls :
    /\ BadDurationCall(calls[c]) /\ TenantBound
    /\ calls[c].options.isObject /\ calls[c].options.expiresInType = "undefined"
    /\ calls[c].result = Rejected("INVALID_SESSION_COOKIE_DURATION")

(***************************************************************************)
(* Properties of getUsers (under GetUsersSpec).                            *)
(***************************************************************************)
Range(seq) == { seq[i] : i \in 1..Len(seq) }
GetUsersResolved == getUsersCall.pc = "done" /\ getUsersCall.result.status = "resolved"
Requested == getUsersCall.identifiers.items

\* C8: getUsers fails with INVALID_ARGUMENT, without any Account Directory
\* call, whenever the identifiers argument is not an array or has more than
\* 100 entries; a list of exactly 100 entries passes on to the directory.
C8_GetUsersArgumentCheck ==
  getUsersCall.pc # "idle" =>
    /\ (~getUsersCall.identifiers.isArray \/ Len(Requested) > 100) =>
         /\ getUsersCall.result = GetUsersRejected("INVALID_ARGUMENT")
         /\ getUsersCall.rpcs = <<>>
    /\ (getUsersCall.identifiers.isArray /\ Len(Requested) = 100) =>
         /\ getUsersCall.rpcs = <<"getAccountInfoByIdentifiers">>
         /\ getUsersCall.result.error # "INVALID_ARGUMENT"

C8_Witness ==
  /\ getUsersCall.pc = "done"
  /\ getUsersCall.identifiers.isArray /\ Len(Requested) = 101
  /\ getUsersCall.result = GetUsersRejected("INVALID_ARGUMENT")

\* An identifier by uid, e-mail or phone number, and whether a public record
\* matches it by equality of that field.
IsPlainIdentifier(id) == id.kind \in {"uid", "email", "phone"}
PlainMatch(id, userRecord) ==
  \/ id.kind = "uid" /\ userRecord.uid = id.uid
  \/ id.kind = "email" /\ userRecord.email = id.email
  \/ id.kind = "phone" /\ userRecord.phoneNumber = id.phoneNumber

\* C9: in the getUsers result, notFound holds exactly the requested uid,
\* e-mail and phone identifiers that no returned account matches: one with a
\* match is absent from notFound, one without is present, and notFound holds
\* no such identifier that was not requested.
C9_NotFoundIsUnmatched ==
  GetUsersResolved =>
    /\ \A id \in Range(Requested) :
         IsPlainIdentifier(id) =>
           ( id \in Range(getUsersCall.result.notFound)
               <=> ~\E u \in Range(getUsersCall.result.users) : PlainMatch(id, u) )
    /\ \A id \in Range(getUsersCall.result.notFound) : id \in Range(Requested)

C9_Witness ==
  /\ GetUsersResolved
  /\ Requested = <<UidIdentifier("a"), PhoneIdentifier("+15551234")>>
  /\ Len(getUsersCall.result.users) = 1
  /\ getUsersCall.result.notFound = <<PhoneIdentifier("+15551234")>>

\* C10: in the getUsers result a provider identifier is found (absent from
\* notFound) if and only if some returned account has a provider entry whose
\* providerId and providerUid both equal the identifier's, whatever list of
\* provider entries the accounts hold.
C10_ProviderFoundIffSomeEntry ==
  GetUsersResolved =>
    \A id \in Range(Requested) :
      id.kind = "provider" =>
        ( id \notin Range(getUsersCall.result.notFound)
            <=> \E u \in Range(getUsersCall.result.users) :
                  \E k \in 1..Len(u.providerData) :
                    /\ u.providerData[k].providerId = id.providerId
                    /\ u.providerData[k].uid = id.providerUid )

\* C11: in the getUsers result, users is the complete list of accounts the
\* directory returned, in the directory's order (entry i is the record of
\* returned account i), neither filtered against the request nor reordered;
\* when the response carries no account list, users is empty and notFound
\* holds every requested identifier.
C11_UsersAreAllReturned ==
  GetUsersResolved =>
    IF getUsersCall.response.hasUsers
    THEN /\ Len(getUsersCall.result.users) = Len(getUsersCall.response.users)
         /\ \A i \in 1..Len(getUsersCall.response.users) :
              /\ getUsersCall.result.users[i].uid = getUsersCall.response.users[i].localId
              /\ getUsersCall.result.users[i].email = getUsersCall.response.users[i].email
              /\ getUsersCall.result.users[i].phoneNumber
                   = getUsersCall.response.users[i].phoneNumber
              /\ Len(getUsersCall.result.users[i].providerData)
                   = Len(getUsersCall.response.users[i].providerUserInfo)
    ELSE /\ getUsersCall.result.users = <<>>
         /\ getUsersCall.result.notFound = Requested

C11_Witness ==
  /\ GetUsersResolved
  /\ Requested = <<UidIdentifier("z")>>
  /\ Len(getUsersCall.result.users) = 2
  /\ getUsersCall.result.users[1].uid = "b"
  /\ getUsersCall.result.users[2].uid = "a"

\* The provider configuration operations on their own, on a base instance.
ProviderConfigInit == GetUsersInit

ProviderConfigNext ==
  \/ \E options \in ProviderConfigFilters : listProviderConfigs(options)
  \/ \E providerId \in ProviderIds : getProviderConfig(providerId)
  \/ \E providerId \in ProviderIds : deleteProviderConfig(providerId)
  \/ \E providerId \in ProviderIds, updatedConfig \in ProviderConfigs :
       updateProviderConfig(providerId, updatedConfig)
  \/ \E config \in ProviderConfigs : createProviderConfig(config)
  \/ providerConfigDone

ProviderConfigSpec == ProviderConfigInit /\ [][ProviderConfigNext]_vars

\* createUser on its own, on a base instance with an empty directory.
CreateUserInit == GetUsersInit

CreateUserNext ==
  \/ \E properties \in CreateRequests : createUser(properties)
  \/ createNewAccountDone
  \/ createUserFetchDone
  \/ \E uid \in Subjects : deleteUser(uid)

CreateUserSpec == CreateUserInit /\ [][CreateUserNext]_vars

\* The tenant options validation on its own.
TenantInit == GetUsersInit

TenantNext ==
  \/ \E tenantOptions \in TenantOptionsArgs, createRequest \in BOOLEAN :
       buildServerRequest(tenantOptions, createRequest)
  \/ \E testPhoneNumbers \in TestPhoneNumbersArgs :
       callValidateTestPhoneNumbers(testPhoneNumbers)

TenantSpec == TenantInit /\ [][TenantNext]_vars

\* The two batch operations.  They share no variable, so a behaviour
\* follows the calls of one of them.
BatchInit == GetUsersInit

BatchNext ==
  \/ deleteUsersCall = IdleDeleteUsers /\ GetUsersNext
  \/ getUsersCall = IdleGetUsers /\ DeleteUsersNext

BatchSpec == BatchInit /\ [][BatchNext]_vars

(***************************************************************************)
(* Properties of deleteUsers (under DeleteUsersSpec).                      *)
(***************************************************************************)
DeleteUsersResolved ==
  deleteUsersCall.pc = "done" /\ deleteUsersCall.result.status = "resolved"
RequestedUids == deleteUsersCall.uids.items
DirectoryErrors == deleteUsersCall.response.errors

\* C12: every outcome deleteUsers resolves with has successCount >= 0,
\* failureCount >= 0 and successCount + failureCount equal to the number of
\* requested uids, for every directory response.
C12_CountsNonNegativeAndSum ==
  DeleteUsersResolved =>
    /\ deleteUsersCall.result.successCount >= 0
    /\ deleteUsersCall.result.failureCount >= 0
    /\ deleteUsersCall.result.successCount + deleteUsersCall.result.failureCount
         = Len(RequestedUids)

\* C13: if the directory reports no errors the outcome is successCount =
\* len(uids), failureCount = 0, errors = []; otherwise failureCount is the
\* number of directory errors, successCount is len(uids) - failureCount, and
\* errors has one entry per directory error, in the directory's order, each
\* carrying that error's index.
C13_DeleteAggregation ==
  DeleteUsersResolved =>
    IF ~deleteUsersCall.response.hasErrors \/ DirectoryErrors = <<>>
    THEN deleteUsersCall.result = DeleteUsersResult(Len(RequestedUids), 0, <<>>)
    ELSE /\ deleteUsersCall.result.failureCount = Len(DirectoryErrors)
         /\ deleteUsersCall.result.successCount
              = Len(RequestedUids) - deleteUsersCall.result.failureCount
         /\ Len(deleteUsersCall.result.errors) = Len(DirectoryErrors)
         /\ \A i \in 1..Len(DirectoryErrors) :
              /\ DirectoryErrors[i].hasIndex
              /\ deleteUsersCall.result.errors[i].index = DirectoryErrors[i].index

C13_Witness ==
  /\ DeleteUsersResolved
  /\ Len(RequestedUids) = 2
  /\ Len(DirectoryErrors) = 1 /\ DirectoryErrors[1].index = 1
  /\ deleteUsersCall.result.successCount = 1
  /\ deleteUsersCall.result.failureCount = 1
  /\ deleteUsersCall.result.errors[1].index = 1

\* C14: deleteUsers fails with INVALID_ARGUMENT before any Account Directory
\* call whenever uids is not an array, is empty or has more than 1000
\* entries; lists of 1 to 1000 uids pass on to the directory.
C14_DeleteUsersArgumentCheck ==
  deleteUsersCall.pc # "idle" =>
    IF ~deleteUsersCall.uids.isArray \/ Len(RequestedUids) = 0
         \/ Len(RequestedUids) > 1000
    THEN /\ deleteUsersCall.result = DeleteUsersRejected("INVALID_ARGUMENT")
         /\ deleteUsersCall.rpcs = <<>>
    ELSE /\ Len(deleteUsersCall.rpcs) = 1
         /\ deleteUsersCall.rpcs[1].name = "deleteAccounts"
         /\ deleteUsersCall.result.error # "INVALID_ARGUMENT"

C14_Witness ==
  /\ deleteUsersCall.pc = "done"
  /\ deleteUsersCall.uids.isArray /\ Len(RequestedUids) = 1001
  /\ deleteUsersCall.result = DeleteUsersRejected("INVALID_ARGUMENT")
  /\ deleteUsersCall.rpcs = <<>>

(***************************************************************************)
(* Properties of the provider configuration operations (under              *)
(* ProviderConfigSpec).                                                    *)
(***************************************************************************)
ByIdOps ==
  {"getProviderConfig", "deleteProviderConfig", "updateProviderConfig",
   "createProviderConfig"}
\* The provider id the operation classifies: config.providerId for create.
ClassifiedId ==
  IF providerCall.op = "createProviderConfig"
  THEN providerCall.config.providerId
  ELSE providerCall.providerId
HasPrefix(id, prefix) == id.isString /\ id.prefix = prefix
OidcRpcOf(op) ==
  CASE op = "getProviderConfig" -> "getOAuthIdpConfig"
    [] op = "deleteProviderConfig" -> "deleteOAuthIdpConfig"
    [] op = "updateProviderConfig" -> "updateOAuthIdpConfig"
    [] op = "createProviderConfig" -> "createOAuthIdpConfig"
SamlRpcOf(op) ==
  CASE op = "getProviderConfig" -> "getInboundSamlConfig"
    [] op = "deleteProviderConfig" -> "deleteInboundSamlConfig"
    [] op = "updateProviderConfig" -> "updateInboundSamlConfig"
    [] op = "createProviderConfig" -> "createInboundSamlConfig"
OnlyRpc(name) == \A i \in 1..Len(providerCall.rpcs) : providerCall.rpcs[i] = name
RejectedWithoutCall(code) ==
  /\ providerCall.pc = "done"
  /\ providerCall.result = ProviderRejected(code)
  /\ providerCall.rpcs = <<>>
TakesConfig == providerCall.op \in {"updateProviderConfig", "createProviderConfig"}

\* C15, as stated: for get, delete, update and create (which classifies
\* config.providerId) an id with prefix 'oidc.' is routed only to the OIDC
\* RPC of the operation, one with prefix 'saml.' only to the SAML RPC, and
\* any other id rejects with INVALID_PROVIDER_ID without a backend call.
C15_RoutingAsStated ==
  (/\ providerCall.op \in ByIdOps
   /\ providerCall.pc # "idle"
   /\ providerCall.op = "createProviderConfig" => providerCall.config.isObject) =>
    IF HasPrefix(ClassifiedId, "oidc.") THEN OnlyRpc(OidcRpcOf(providerCall.op))
    ELSE IF HasPrefix(ClassifiedId, "saml.") THEN OnlyRpc(SamlRpcOf(providerCall.op))
    ELSE RejectedWithoutCall("INVALID_PROVIDER_ID")

\* C15, amended: when the operation gets as far as classifying the id (for
\* update and create: the configuration is a non-null object), an id with
\* prefix 'oidc.' issues exactly the OIDC RPC of the operation, one with
\* prefix 'saml.' exactly the SAML RPC, and any other id rejects with
\* INVALID_PROVIDER_ID without a backend call.
C15_RoutingWhenConfigGiven ==
  (/\ providerCall.op \in ByIdOps
   /\ providerCall.pc # "idle"
   /\ TakesConfig => providerCall.config.isObject) =>
    IF HasPrefix(ClassifiedId, "oidc.")
    THEN providerCall.rpcs = <<OidcRpcOf(providerCall.op)>>
    ELSE IF HasPrefix(ClassifiedId, "saml.")
    THEN providerCall.rpcs = <<SamlRpcOf(providerCall.op)>>
    ELSE RejectedWithoutCall("INVALID_PROVIDER_ID")

C15_Witness ==
  /\ providerCall.op = "updateProviderConfig"
  /\ providerCall.config.isObject
  /\ providerCall.providerId = ProviderId("googl", "e.com")
  /\ RejectedWithoutCall("INVALID_PROVIDER_ID")

\* C16: createProviderConfig and updateProviderConfig reject with
\* INVALID_CONFIG, without a backend call, whenever the configuration is
\* null or not an object; for update, whatever the provider id is.
C16_InvalidConfigFirst ==
  (TakesConfig /\ providerCall.pc # "idle" /\ ~providerCall.config.isObject) =>
    RejectedWithoutCall("INVALID_CONFIG")

C16_Witness ==
  /\ providerCall.op = "updateProviderConfig"
  /\ ~providerCall.config.isObject
  /\ providerCall.providerId = ProviderId("googl", "e.com")
  /\ RejectedWithoutCall("INVALID_CONFIG")

\* C17: listProviderConfigs issues the OIDC listing RPC exactly when
\* filter.type is 'oidc' and the SAML listing RPC exactly when it is 'saml';
\* for a missing filter or another type it rejects with INVALID_ARGUMENT and
\* issues no call; the resolved page has a pageToken key iff the response
\* carries a next-page token, and then it is that token.
C17_ListDispatchAndPageToken ==
  (providerCall.op = "listProviderConfigs" /\ providerCall.pc # "idle") =>
    /\ IF providerCall.options.isObject /\ providerCall.options.type = "oidc"
       THEN providerCall.rpcs = <<"listOAuthIdpConfigs">>
       ELSE IF providerCall.options.isObject /\ providerCall.options.type = "saml"
       THEN providerCall.rpcs = <<"listInboundSamlConfigs">>
       ELSE RejectedWithoutCall("INVALID_ARGUMENT")
    /\ (providerCall.pc = "done" /\ providerCall.result.status = "resolved") =>
         /\ providerCall.result.hasPageToken = providerCall.response.hasNextPageToken
         /\ providerCall.response.hasNextPageToken =>
              providerCall.result.pageToken = providerCall.response.nextPageToken
         /\ providerCall.result.count = providerCall.response.count

C17_Witness ==
  /\ providerCall.op = "listProviderConfigs"
  /\ providerCall.rpcs = <<"listInboundSamlConfigs">>
  /\ providerCall.pc = "done" /\ providerCall.result.status = "resolved"
  /\ ~providerCall.response.hasNextPageToken
  /\ ~providerCall.result.hasPageToken
  /\ providerCall.result.count = 1

(***************************************************************************)
(* Properties of createUser (under CreateUserSpec).                        *)
(***************************************************************************)
CreateUserFailed ==
  createUserCall.pc = "done" /\ createUserCall.result.status = "rejected"
\* The fetch that followed a successful createNewAccount found no user.
FetchAfterCreateNotFound ==
  createUserCall.createError = "" /\ createUserCall.fetchError = "USER_NOT_FOUND"

\* C18: createUser rejects with INTERNAL_ERROR when the fetch that follows a
\* successful createNewAccount fails with user-not-found; every other
\* failure, including any error of the createNewAccount step itself,
\* reaches the caller unchanged.
C18_OnlyFetchNotFoundIsReinterpreted ==
  CreateUserFailed =>
    IF FetchAfterCreateNotFound
    THEN createUserCall.result.error = "INTERNAL_ERROR"
    ELSE createUserCall.result.error =
           (IF createUserCall.createError # ""
            THEN createUserCall.createError ELSE createUserCall.fetchError)

(***************************************************************************)
(* Properties of the tenant options validation (under TenantSpec).         *)
(***************************************************************************)
Validated == tenantCall.op = "buildServerRequest"
Whitelist == {"displayName", "emailSignInConfig", "multiFactorConfig", "testPhoneNumbers"}
\* The top-level keys of the validated request that are outside the
\* whitelist.
KeysOutsideWhitelist ==
  { tenantCall.tenantOptions.extraKeys[i] :
      i \in 1..Len(tenantCall.tenantOptions.extraKeys) } \ Whitelist

\* C19: tenant options validation, for create and for update, rejects with
\* INVALID_ARGUMENT any non-object input and any object having a top-level
\* key outside {displayName, emailSignInConfig, multiFactorConfig,
\* testPhoneNumbers}, the error naming an offending key; an object whose
\* keys are all in the whitelist is never rejected for its key set.
C19_WhitelistEnforced ==
  Validated =>
    /\ ~tenantCall.tenantOptions.isObject =>
         tenantCall.outcome.threw /\ tenantCall.outcome.code = "INVALID_ARGUMENT"
    /\ (tenantCall.tenantOptions.isObject /\ KeysOutsideWhitelist # {}) =>
         /\ tenantCall.outcome.threw
         /\ tenantCall.outcome.code = "INVALID_ARGUMENT"
         /\ tenantCall.outcome.source = "key"
         /\ tenantCall.outcome.key \in KeysOutsideWhitelist
    /\ (tenantCall.tenantOptions.isObject /\ KeysOutsideWhitelist = {}) =>
         tenantCall.outcome.source # "key"

TestedMap == tenantCall.testPhoneNumbers
PlainMap == TestedMap.kind = "map"
AllEntriesValid ==
  \A i \in 1..Len(TestedMap.entries) :
    /\ TestedMap.entries[i].phoneNumber.e164
    /\ TestedMap.entries[i].code.isString
    /\ Len(TestedMap.entries[i].code.chars) = 6
    /\ \A c \in 1..Len(TestedMap.entries[i].code.chars) :
         TestedMap.entries[i].code.chars[c]
           \in {"0", "1", "2", "3", "4", "5", "6", "7", "8", "9"}

\* C20: validateTestPhoneNumbers accepts a value iff it is a plain map with
\* at most 10 entries whose every key is a valid E.164 number and every
\* value a string of exactly 6 ASCII digits; a map of more than 10 entries
\* fails with MAXIMUM_TEST_PHONE_NUMBER_EXCEEDED whatever its entries, a map
\* of at most 10 entries with a bad key or code fails with
\* INVALID_TESTING_PHONE_NUMBER, and a non-map fails with INVALID_ARGUMENT.
C20_TestPhoneNumbersAccepted ==
  tenantCall.op = "validateTestPhoneNumbers" =>
    /\ ~tenantCall.outcome.threw
         <=> (PlainMap /\ Len(TestedMap.entries) <= 10 /\ AllEntriesValid)
    /\ (PlainMap /\ Len(TestedMap.entries) > 10) =>
         tenantCall.outcome.code = "MAXIMUM_TEST_PHONE_NUMBER_EXCEEDED"
    /\ (PlainMap /\ Len(TestedMap.entries) <= 10 /\ ~AllEntriesValid) =>
         tenantCall.outcome.code = "INVALID_TESTING_PHONE_NUMBER"
    /\ ~PlainMap => tenantCall.outcome.code = "INVALID_ARGUMENT"

C20_Witness ==
  /\ tenantCall.op = "validateTestPhoneNumbers"
  /\ PlainMap /\ Len(TestedMap.entries) = 11 /\ ~AllEntriesValid
  /\ tenantCall.outcome.threw
  /\ tenantCall.outcome.code = "MAXIMUM_TEST_PHONE_NUMBER_EXCEEDED"

\* C21: buildServerRequest validates before assembling and produces no
\* request when validation fails; testPhoneNumbers = null is rejected with
\* INVALID_ARGUMENT on a create request and becomes the empty map on an
\* update request; an option absent from the input (displayName,
\* multiFactorConfig, testPhoneNumbers) has no key in the produced request.
C21_BuildServerRequest ==
  Validated =>
    /\ tenantCall.outcome.threw <=> ~tenantCall.request.built
    /\ tenantCall.outcome.threw => tenantCall.request = NoServerRequest
    /\ (tenantCall.tenantOptions.isObject
        /\ tenantCall.tenantOptions.testPhoneNumbers.kind = "null"
        /\ tenantCall.createRequest) =>
         /\ tenantCall.outcome.threw
         /\ tenantCall.outcome.source # "emailSignInConfig" =>
              tenantCall.outcome.code = "INVALID_ARGUMENT"
    /\ (tenantCall.tenantOptions.testPhoneNumbers.kind = "null"
        /\ ~tenantCall.createRequest /\ tenantCall.request.built) =>
         /\ tenantCall.request.hasTestPhoneNumbers
         /\ tenantCall.request.testPhoneNumbers = [kind |-> "map", entries |-> <<>>]
    /\ tenantCall.request.built =>
         /\ ~tenantCall.tenantOptions.displayName.defined
              => ~tenantCall.request.hasDisplayName
         /\ ~tenantCall.tenantOptions.multiFactorConfig.defined
              => ~tenantCall.request.hasMfaConfig
         /\ tenantCall.tenantOptions.testPhoneNumbers.kind = "undefined"
              => ~tenantCall.request.hasTestPhoneNumbers

C21_Witness ==
  /\ Validated
  /\ ~tenantCall.createRequest
  /\ tenantCall.tenantOptions.testPhoneNumbers.kind = "null"
  /\ ~tenantCall.tenantOptions.displayName.defined
  /\ tenantCall.request.built
  /\ tenantCall.request.testPhoneNumbers = [kind |-> "map", entries |-> <<>>]
  /\ ~tenantCall.request.hasDisplayName

(***************************************************************************)
(* Further properties of verification and session-cookie creation (under   *)
(* Spec).                                                                  *)
(***************************************************************************)
AccountFetches(call) ==
  { i \in 1..Len(call.rpcs) : call.rpcs[i].name = "getAccountInfoByUid" }

\* C22: in verifyIdToken / verifySessionCookie with checkRevoked = true the
\* account fetch is issued only once the local decode has succeeded, and it
\* is keyed by the decoded subject; if the local decode fails no Account
\* Directory call is ever issued and the verifier's error is the result.
C22_FetchOnlyAfterDecode ==
  \A c \in Calls :
    (IsVerify(calls[c]) /\ calls[c].checkRevoked) =>
      /\ calls[c].pc = "verifyJWT" => calls[c].rpcs = <<>>
      /\ \A i \in AccountFetches(calls[c]) :
           /\ calls[c].decoded \in DecodedIdTokens
           /\ calls[c].rpcs[i].arg = calls[c].decoded.sub
      /\ (calls[c].pc = "done" /\ calls[c].decoded = NoDecoded) =>
           /\ calls[c].rpcs = <<>>
           /\ calls[c].result.status = "rejected"
           /\ calls[c].result.error \in VerifierErrors
           /\ calls[c].result = calls[c].base

C22_Witness ==
  \E c \in Calls :
    /\ IsVerify(calls[c]) /\ calls[c].checkRevoked
    /\ calls[c].pc = "getUser"
    /\ calls[c].decoded \in DecodedIdTokens
    /\ calls[c].rpcs = <<[name |-> "getAccountInfoByUid", arg |-> calls[c].decoded.sub]>>

(***************************************************************************)
(* Further properties of deleteUsers (under DeleteUsersSpec).              *)
(***************************************************************************)
\* The directory has answered the batch delete with a response.
DeleteAnswered ==
  /\ deleteUsersCall.pc = "done"
  /\ deleteUsersCall.rpcs # <<>>
  /\ deleteUsersCall.result.error \notin NetworkErrors
SomeEntryWithoutIndex ==
  /\ deleteUsersCall.response.hasErrors
  /\ \E i \in 1..Len(DirectoryErrors) : ~DirectoryErrors[i].hasIndex

\* C23: if any entry of a non-empty directory error list has no index the
\* whole deleteUsers call rejects with INTERNAL_ERROR and no partial outcome
\* is returned; when every entry has an index the call resolves with an
\* aggregated outcome however many per-index errors there are.
C23_MissingIndexRejects ==
  DeleteAnswered =>
    IF SomeEntryWithoutIndex
    THEN deleteUsersCall.result = DeleteUsersRejected("INTERNAL_ERROR")
    ELSE /\ deleteUsersCall.result.status = "resolved"
         /\ deleteUsersCall.response.hasErrors =>
              deleteUsersCall.result.failureCount = Len(DirectoryErrors)

C23_Witness ==
  /\ DeleteAnswered
  /\ Len(DirectoryErrors) = 2
  /\ DirectoryErrors[1].hasIndex /\ ~DirectoryErrors[2].hasIndex
  /\ deleteUsersCall.result = DeleteUsersRejected("INTERNAL_ERROR")

\* C24: each per-index deleteUsers error is mapped to USER_NOT_DISABLED
\* exactly when the directory message starts with 'NOT_DISABLED' and to
\* INTERNAL_ERROR in every other case (a missing message included); in both
\* cases the error is built with the raw directory message.
C24_NotDisabledMapping ==
  DeleteUsersResolved =>
    \A i \in 1..Len(deleteUsersCall.result.errors) :
      /\ deleteUsersCall.result.errors[i].error.code =
           (IF DirectoryErrors[i].message.defined
               /\ DirectoryErrors[i].message.head = "NOT_DISABLED"
            THEN "USER_NOT_DISABLED" ELSE "INTERNAL_ERROR")
      /\ deleteUsersCall.result.errors[i].error.message = DirectoryErrors[i].message

C24_Witness ==
  /\ DeleteUsersResolved
  /\ Len(deleteUsersCall.result.errors) = 2
  /\ ~DirectoryErrors[1].message.defined
  /\ deleteUsersCall.result.errors[1].error.code = "INTERNAL_ERROR"
  /\ DirectoryErrors[2].message.head = "NOT_DISABLED"
  /\ deleteUsersCall.result.errors[2].error.code = "USER_NOT_DISABLED"
  /\ deleteUsersCall.result.errors[2].error.message = DirectoryErrors[2].message

(***************************************************************************)
(* Properties of the batch operations (under BatchSpec).                   *)
(***************************************************************************)
GetUsersAccepted ==
  /\ getUsersCall.pc # "idle"
  /\ getUsersCall.identifiers.isArray
  /\ Len(getUsersCall.identifiers.items) <= 100
DeleteUsersAccepted ==
  /\ deleteUsersCall.pc # "idle"
  /\ deleteUsersCall.uids.isArray
  /\ Len(deleteUsersCall.uids.items) \in 1..1000

\* C25: each accepted getUsers call and each accepted deleteUsers call
\* issues exactly one Account Directory RPC, and once its response has
\* arrived the operation issues no further directory call.
C25_OneRoundTrip ==
  /\ GetUsersAccepted => getUsersCall.rpcs = <<"getAccountInfoByIdentifiers">>
  /\ DeleteUsersAccepted =>
       /\ Len(deleteUsersCall.rpcs) = 1
       /\ deleteUsersCall.rpcs[1].name = "deleteAccounts"

C25_Witness ==
  /\ GetUsersAccepted
  /\ getUsersCall.pc = "done"
  /\ getUsersCall.result.status = "resolved"
  /\ getUsersCall.result.notFound # <<>>
  /\ Len(getUsersCall.rpcs) = 1

\* C29: verifyIdToken / verifySessionCookie with checkRevoked = true issues
\* exactly one account fetch and decides on the record that fetch returned:
\* a revocation that reaches the directory after the fetch has returned
\* does not fail the call in flight, and a cutoff the fetch saw fails it
\* when the token's auth_time is before it.
C29_DecidesOnFetchedSnapshot ==
  \A c \in Calls :
    (IsVerify(calls[c]) /\ calls[c].checkRevoked /\ calls[c].user.exists
       /\ calls[c].pc \in {"tenantCheck", "done"}) =>
      /\ calls[c].rpcs = <<[name |-> "getAccountInfoByUid", arg |-> calls[c].decoded.sub]>>
      /\ calls[c].base =
           IF calls[c].user.tokensValidAfterTime.defined
              /\ calls[c].decoded.auth_time * 1000 < CutoffMillis(calls[c].user)
           THEN Rejected(RevocationErrorInfo(calls[c].op))
           ELSE Resolved(calls[c].decoded)
      /\ calls[c].base.status = "rejected" => calls[c].result = calls[c].base

\* The verification resolved although the directory now holds a cutoff
\* after the token's auth_time: the revocation came after the fetch.
C29_Witness ==
  \E c \in Calls :
    /\ IsVerify(calls[c]) /\ calls[c].checkRevoked /\ calls[c].pc = "done"
    /\ calls[c].result = Resolved(calls[c].decoded)
    /\ ~calls[c].user.tokensValidAfterTime.defined
    /\ directory[calls[c].decoded.sub].tokensValidAfterTime.defined
    /\ calls[c].decoded.auth_time * 1000
         < CutoffMillis(directory[calls[c].decoded.sub])

\* A verification with checkRevoked = true on a tenant-bound instance of a
\* token the local verifier accepted and whose tenant claim differs from
\* the instance's.
RevocationCheckedOtherTenant(call) ==
  /\ TenantBound /\ IsVerify(call) /\ call.checkRevoked
  /\ call.decoded \in DecodedIdTokens
  /\ call.decoded.tenant # tenantId

\* C27: on a tenant-bound instance with checkRevoked = true the tenant
\* comparison runs only after the base verification, account fetch
\* included, has succeeded: a locally valid token of another tenant still
\* causes one directory fetch for its subject, and when that fetch fails or
\* finds the token revoked, that error is the result, not
\* MISMATCHING_TENANT_ID.
C27_TenantCheckAfterFetch ==
  \A c \in Calls :
    RevocationCheckedOtherTenant(calls[c]) =>
      /\ calls[c].rpcs = <<[name |-> "getAccountInfoByUid", arg |-> calls[c].decoded.sub]>>
      /\ calls[c].pc = "tenantCheck" => calls[c].base = Resolved(calls[c].decoded)
      /\ calls[c].pc = "done" => calls[c].result.status = "rejected"
      /\ (calls[c].pc = "done" /\ calls[c].base.status = "rejected") =>
           /\ calls[c].result = calls[c].base
           /\ calls[c].result.error \in
                NetworkErrors \cup {"USER_NOT_FOUND", RevocationErrorInfo(calls[c].op)}
      /\ calls[c].result = Rejected("MISMATCHING_TENANT_ID") =>
           /\ calls[c].user.exists
           /\ calls[c].base = Resolved(calls[c].decoded)

C27_Witness ==
  \E c \in Calls :
    /\ RevocationCheckedOtherTenant(calls[c])
    /\ calls[c].op = "verifySessionCookie"
    /\ calls[c].pc = "done"
    /\ calls[c].result = Rejected("SESSION_COOKIE_REVOKED")

\* C28: tenant-bound createSessionCookie verifies the idToken with
\* checkRevoked = false: it never fetches the account of the subject, its
\* only Account Directory call is the createSessionCookie RPC, and a token
\* whose auth_time is before the subject's tokens-valid-after time is still
\* exchanged for a cookie when its tenant matches.
C28_TenantCookieSkipsRevocation ==
  \A c \in Calls :
    (TenantBound /\ calls[c].op = "createSessionCookie") =>
      /\ ~calls[c].checkRevoked
      /\ calls[c].user = NoAccount
      /\ Len(calls[c].rpcs) <= 1
      /\ \A i \in 1..Len(calls[c].rpcs) : calls[c].rpcs[i].name = "createSessionCookie"
      /\ (calls[c].decoded \in DecodedIdTokens /\ calls[c].decoded.tenant = tenantId
            /\ calls[c].pc \in {"mint", "done"}) =>
           calls[c].rpcs = <<[name |-> "createSessionCookie", arg |-> calls[c].idToken.str]>>
      /\ (calls[c].decoded \in DecodedIdTokens /\ calls[c].decoded.tenant = tenantId) =>
           calls[c].pc \in {"tenantCheck", "mint", "done"}

C28_Witness ==
  \E c \in Calls :
    /\ TenantBound /\ calls[c].op = "createSessionCookie"
    /\ calls[c].result = ResolvedCookie("cookie")
    /\ directory[calls[c].decoded.sub].tokensValidAfterTime.defined
    /\ calls[c].decoded.auth_time * 1000 < CutoffMillis(directory[calls[c].decoded.sub])

\* C30: tenant-bound createSessionCookie checks the idToken first: when it
\* is not a non-empty string the call rejects with INVALID_ID_TOKEN whatever
\* the options are, without the local verifier and without a network call;
\* the base createSessionCookie makes no such check and no local
\* verification, and goes straight to the mint RPC once the duration is
\* valid.
C30_IdTokenCheckedFirst ==
  \A c \in Calls :
    calls[c].op = "createSessionCookie" =>
      /\ (TenantBound /\ ~(calls[c].idToken.isString /\ calls[c].idToken.str # "")) =>
           /\ calls[c].pc = "done"
           /\ calls[c].result = Rejected("INVALID_ID_TOKEN")
           /\ calls[c].verifier = "none"
           /\ calls[c].rpcs = <<>>
      /\ ~TenantBound =>
           /\ calls[c].verifier = "none"
           /\ calls[c].decoded = NoDecoded
           /\ calls[c].result.error # "INVALID_ID_TOKEN"
           /\ ~BadDurationCall(calls[c]) =>
                /\ calls[c].pc \in {"mint", "done"}
                /\ calls[c].rpcs =
                     <<[name |-> "createSessionCookie", arg |-> calls[c].idToken.str]>>

C30_Witness ==
  \E c \in Calls :
    /\ TenantBound /\ calls[c].op = "createSessionCookie"
    /\ ~calls[c].idToken.isString
    /\ ~calls[c].options.isObject
    /\ calls[c].result = Rejected("INVALID_ID_TOKEN")
    /\ calls[c].rpcs = <<>>

(***************************************************************************)
(* Properties of concurrent calls (under ConcurrentSpec).                  *)
(***************************************************************************)
\* Two calls with the same arguments that got the same answers.
SameCall(a, b) ==
  /\ a.op = b.op /\ a.idToken = b.idToken
  /\ a.checkRevoked = b.checkRevoked /\ a.options = b.options
  /\ a.replies = b.replies
OutcomeByOwnInputs ==
  \A a, b \in ConcurrentCalls :
    (calls[a].pc = "done" /\ calls[b].pc = "done" /\ SameCall(calls[a], calls[b])) =>
      /\ calls[a].result = calls[b].result
      /\ calls[a].base = calls[b].base
      /\ calls[a].rpcs = calls[b].rpcs

====
